---- MODULE Spec2Model ----
(***************************************************************************)
(* Model of the cluster_doctor scheduling subsystem:                       *)
(*   - the all-pairs round scheduler and its verifier and command line     *)
(*     driver (validation-tests/allpair/generate_permutations.py),         *)
(*   - the staleness priority queue builders (orchestrator.py and          *)
(*     utils/functions.py),                                                *)
(*   - the orchestrator's job lifecycle loop (orchestrator.py, main),      *)
(*   - the Result Store: the table runs and the view latest_status         *)
(*     (result_management/result_manager.py and orchestrator.py), its      *)
(*     schema initialization, its concurrent writers and the metric        *)
(*     tables of utils/functions.py.                                       *)
(*                                                                         *)
(* Python strings are modelled as sequences of code points, so that the    *)
(* string order used by sorted() is the real lexicographic order.  Time is *)
(* in seconds, as returned by time.time().                                 *)
(***************************************************************************)
EXTENDS Integers, Sequences, FiniteSets, TLC

VARIABLES
    \* generate_permutations.py: main()
    g_pc,           \* position of main(): start, loaded, scheduled, verified, done, exit
    args,           \* parsed command line
    items,          \* participant list
    rounds,         \* schedule
    verify_result,  \* what verify_rounds returned: "none", "True", "False"
    emit_called,    \* emit(rounds, fmt) was called
    output,         \* rounds written to stdout
    exit_code,      \* process exit status, -1 while running
    \* build_priority_queue (both implementations)
    q_pc, q_free, q_latest, q_now, q_half, q_days, q_shuffle, q_queue, u_queue,
    \* orchestrator.py: main()
    pc,             \* position inside the orchestration cycle
    now,            \* the wall clock, time.time()
    current_time,   \* main: current_time of the running cycle
    active_jobs,    \* main: active_jobs, as a set of entries
    nodes_to_remove,\* main: nodes_to_remove of the running cycle
    runs,           \* Result Store: the run log (table runs)
    logs,           \* files below LOGS_DIR
    node_queue,     \* main: node_queue of the running cycle
    events,         \* what the running cycle logged / asked of the job scheduler
    cycles,         \* number of cycles started
    \* the Result Store used on its own
    s_runs,         \* the table runs, in rowid order
    s_ret,          \* the last call on the store and what it returned
    s_given,        \* the result argument of the last call, when it was insert_run
    s_schema,       \* sqlite_master of the results and of the storage database
    \* the metric tables of utils/functions.py
    m_storage,      \* the table storage_performance
    m_nccl,         \* the table nccl_performance
    m_ret,          \* the last insert into a metric table and how it ended
    m_count,        \* number of inserts into the metric tables
    \* concurrent writers of the table runs
    w_table,        \* the table runs in the database file, in rowid order
    w_lock,         \* the holder of the write lock of the file, or "none"
    w_proc,         \* each writer's position, row, prepared table and last return
    w_done,         \* the rows of the inserts that returned without an error
    w_calls,        \* number of insert calls
    \* fetch_and_update_results beside a result producer
    f_pc,           \* position of fetch_and_update_results: idle, walk
    f_cache,        \* its dictionary latest_status
    f_todo,         \* the log files its walk has not visited yet
    \* others/npair_old.py: the plan of the all-pairs benchmark
    p_pc,           \* position: idle, start, done, error
    p_n,            \* node_world_size
    p_config        \* allpairs_node, what generate_pairwise_config returned

gen_vars == <<g_pc, args, items, rounds, verify_result, emit_called, output, exit_code>>
queue_vars == <<q_pc, q_free, q_latest, q_now, q_half, q_days, q_shuffle, q_queue, u_queue>>
orch_vars == <<pc, now, current_time, active_jobs, nodes_to_remove, node_queue, runs, logs, events, cycles>>
metric_vars == <<m_storage, m_nccl, m_ret, m_count>>
writer_vars == <<w_table, w_lock, w_proc, w_done, w_calls>>
fetch_vars == <<f_pc, f_cache, f_todo>>
store_vars == <<s_runs, s_ret, s_given, s_schema, metric_vars, writer_vars, fetch_vars>>
pair_vars == <<p_pc, p_n, p_config>>
vars == <<gen_vars, queue_vars, orch_vars, store_vars, pair_vars>>

----------------------------------------------------------------------------
(* Python strings                                                          *)

\* The BYE placeholder (None): a value no string is equal to.
BYE == <<-1>>

\* s < t for Python str: lexicographic by code point.
StrLess(s, t) ==
    \E i \in 1..(Len(s) + 1) :
        /\ \A k \in 1..(i - 1) : k <= Len(t) /\ s[k] = t[k]
        /\ IF i <= Len(s) THEN i <= Len(t) /\ s[i] < t[i] ELSE Len(s) < Len(t)

\* tuple(sorted((a, b)))
SortedPair(a, b) == IF StrLess(b, a) THEN <<b, a>> ELSE <<a, b>>

RECURSIVE Str(_)
\* str(i) for a non-negative int: its decimal digits.
Str(i) == IF i < 10 THEN <<48 + i>> ELSE Str(i \div 10) \o <<48 + (i % 10)>>

RECURSIVE Strip(_)
\* ln.strip(): drop leading and trailing blanks (code point 32).
Strip(s) ==
    IF s = <<>> THEN s
    ELSE IF Head(s) = 32 THEN Strip(Tail(s))
    ELSE IF s[Len(s)] = 32 THEN Strip(SubSeq(s, 1, Len(s) - 1))
    ELSE s

RECURSIVE SeqToSet(_)
SeqToSet(s) == IF s = <<>> THEN {} ELSE {Head(s)} \cup SeqToSet(Tail(s))

RECURSIVE SeqsUpTo(_, _)
\* all sequences over S of length 0..n
SeqsUpTo(S, n) ==
    IF n = 0 THEN {<<>>}
    ELSE LET shorter == SeqsUpTo(S, n - 1)
         IN  shorter \cup {Append(s, x) : s \in {t \in shorter : Len(t) = n - 1}, x \in S}

Distinct(s) == \A i, j \in 1..Len(s) : i # j => s[i] # s[j]

----------------------------------------------------------------------------
(* generate_permutations.py: schedule_round_robin                          *)

\* One round of the circle method: zip(arr[:half], arr[half:][::-1]),
\* BYE pairs dropped.
RECURSIVE ZipFrom(_, _, _)
ZipFrom(arr, i, half) ==
    IF i > half THEN <<>>
    ELSE LET a == arr[i]
             b == arr[Len(arr) + 1 - i]
         IN  (IF a # BYE /\ b # BYE THEN <<(<<a, b>>)>> ELSE <<>>)
             \o ZipFrom(arr, i + 1, half)

\* A slip in the slice of the right half: zip(arr[:half], arr[half-1:]).
RECURSIVE ZipFromOverlap(_, _, _)
ZipFromOverlap(arr, i, half) ==
    IF i > half THEN <<>>
    ELSE LET a == arr[i]
             b == arr[half - 1 + i]
         IN  (IF a # BYE /\ b # BYE THEN <<(<<a, b>>)>> ELSE <<>>)
             \o ZipFromOverlap(arr, i + 1, half)

MakeRoundOverlap(arr) == ZipFromOverlap(arr, 1, Len(arr) \div 2)

MakeRound(arr) == ZipFrom(arr, 1, Len(arr) \div 2)

\* A slip in the rotation: the first element is rotated with the rest.
RotateAll(arr) ==
    IF Len(arr) > 2 THEN <<arr[Len(arr)]>> \o SubSeq(arr, 1, Len(arr) - 1) ELSE arr

\* arr = [arr[0], arr[-1], *arr[1:-1]] when n > 2
Rotate(arr) ==
    IF Len(arr) > 2
    THEN <<arr[1], arr[Len(arr)]>> \o SubSeq(arr, 2, Len(arr) - 1)
    ELSE arr

RECURSIVE RoundsFrom(_, _)
\* the loop "for _ in range(total_rounds)"
RoundsFrom(arr, k) ==
    IF k = 0 THEN <<>>
    ELSE <<MakeRound(arr)>> \o RoundsFrom(Rotate(arr), k - 1)

\* the schedule with total_rounds = n for n - 1
schedule_one_round_more(its) ==
    LET odd == (Len(its) % 2 = 1)
        arr == its \o (IF odd THEN <<BYE>> ELSE <<>>)
        n   == Len(arr)
    IN  IF n < 2 THEN <<>> ELSE RoundsFrom(arr, n)

schedule_round_robin(its) ==
    LET odd == (Len(its) % 2 = 1)
        arr == its \o (IF odd THEN <<BYE>> ELSE <<>>)
        n   == Len(arr)
    IN  IF n < 2 THEN <<>> ELSE RoundsFrom(arr, n - 1)

----------------------------------------------------------------------------
(* generate_permutations.py: verify_rounds                                 *)

RECURSIVE RoundRepeats(_, _)
\* the walk over one round with the set "used": TRUE when some pair is
\* reported as repeating a node
RoundRepeats(rnd, used) ==
    IF rnd = <<>> THEN FALSE
    ELSE LET a == Head(rnd)[1]
             b == Head(rnd)[2]
         IN  (a \in used \/ b \in used) \/ RoundRepeats(Tail(rnd), used \cup {a, b})

\* set(combinations(items, 2)): tuples in the order of the list
Combinations2(its) ==
    {<<its[ij[1]], its[ij[2]]>> :
        ij \in {xy \in (1..Len(its)) \X (1..Len(its)) : xy[1] < xy[2]}}

\* seen: the pairs of all rounds, each canonicalized by tuple(sorted((a, b)))
SeenPairs(rnds) ==
    UNION {{SortedPair(rnds[r][p][1], rnds[r][p][2]) : p \in 1..Len(rnds[r])} :
             r \in 1..Len(rnds)}

verify_rounds(rnds, its) ==
    LET repeats == \E r \in 1..Len(rnds) : RoundRepeats(rnds[r], {})
    IN  ~repeats /\ SeenPairs(rnds) = Combinations2(its)

----------------------------------------------------------------------------
(* generate_permutations.py: load_items, emit, main                        *)

\* Bounds of the command line inputs.
MaxLines == 4
MaxNItems == 11

\* Lines a nodes file is made of: "a", "b", "c", " a" and the blank line.
FileLineSet == {<<97>>, <<98>>, <<99>>, <<32, 97>>, <<>>}

RECURSIVE StripLines(_)
\* [ln.strip() for ln in f if ln.strip()]
StripLines(lines) ==
    IF lines = <<>> THEN <<>>
    ELSE (IF Strip(Head(lines)) # <<>> THEN <<Strip(Head(lines))>> ELSE <<>>)
         \o StripLines(Tail(lines))

RECURSIVE RangeStr(_, _)
\* [str(i) for i in range(n)], from i on
RangeStr(i, n) == IF i >= n THEN <<>> ELSE <<Str(i)>> \o RangeStr(i + 1, n)

\* load_items exits: no nodes file and n is None or n < 2
load_items_exits(a) == ~a.has_file /\ (~a.has_n \/ a.nitems < 2)

load_items(a) ==
    IF a.has_file THEN StripLines(a.file_lines) ELSE RangeStr(0, a.nitems)

ArgSet ==
    {[has_file |-> TRUE, file_lines |-> l, has_n |-> FALSE, nitems |-> 0, verify |-> v] :
        l \in SeqsUpTo(FileLineSet, MaxLines), v \in BOOLEAN}
    \cup
    {[has_file |-> FALSE, file_lines |-> <<>>, has_n |-> TRUE, nitems |-> n, verify |-> v] :
        n \in 0..MaxNItems, v \in BOOLEAN}
    \cup
    {[has_file |-> FALSE, file_lines |-> <<>>, has_n |-> FALSE, nitems |-> 0, verify |-> v] :
        v \in BOOLEAN}

\* the benchmark is not running
PairIdle == p_pc = "idle" /\ p_n = 0 /\ p_config = <<>>

GenIdle ==
    /\ g_pc = "idle" /\ args = [has_file |-> FALSE, file_lines |-> <<>>, has_n |-> FALSE, nitems |-> 0, verify |-> FALSE]
    /\ items = <<>> /\ rounds = <<>> /\ verify_result = "none"
    /\ emit_called = FALSE /\ output = <<>> /\ exit_code = -1

GenInit ==
    /\ g_pc = "start"
    /\ args \in ArgSet
    /\ items = <<>> /\ rounds = <<>> /\ verify_result = "none"
    /\ emit_called = FALSE /\ output = <<>> /\ exit_code = -1

\* main: items = load_items(args.nitems, args.nodes_file)
GenLoad ==
    /\ g_pc = "start"
    /\ IF load_items_exits(args)
       THEN g_pc' = "exit" /\ exit_code' = 1 /\ items' = items
       ELSE g_pc' = "loaded" /\ items' = load_items(args) /\ exit_code' = exit_code
    /\ UNCHANGED <<args, rounds, verify_result, emit_called, output>>

\* main: rounds = schedule_round_robin(items)
GenSchedule ==
    /\ g_pc = "loaded"
    /\ rounds' = schedule_round_robin(items)
    /\ g_pc' = "scheduled"
    /\ UNCHANGED <<args, items, verify_result, emit_called, output, exit_code>>

\* main: if args.verify: verify_rounds(rounds, items)   (the result is not used)
GenVerify ==
    /\ g_pc = "scheduled"
    /\ verify_result' = IF args.verify
                        THEN (IF verify_rounds(rounds, items) THEN "True" ELSE "False")
                        ELSE verify_result
    /\ g_pc' = "verified"
    /\ UNCHANGED <<args, items, rounds, emit_called, output, exit_code>>

\* main: emit(rounds, args.format), then the normal end of the process
GenEmit ==
    /\ g_pc = "verified"
    /\ emit_called' = TRUE
    /\ output' = rounds
    /\ exit_code' = 0
    /\ g_pc' = "done"
    /\ UNCHANGED <<args, items, rounds, verify_result>>

GenNext == GenLoad \/ GenSchedule \/ GenVerify \/ GenEmit

\* Bounds of the schedules handed to verify_rounds on its own.
MaxVRounds == 2
MaxVPairs == 1

\* the names "a" and "b"
VNames == {<<97>>, <<98>>}

VItems == {its \in SeqsUpTo(VNames, 2) : Len(its) = 2 /\ Distinct(its)}

VRounds == SeqsUpTo(SeqsUpTo(VNames \X VNames, MaxVPairs), MaxVRounds)

VerifyInit ==
    /\ g_pc = "vstart"
    /\ args = [has_file |-> FALSE, file_lines |-> <<>>, has_n |-> FALSE, nitems |-> 0, verify |-> TRUE]
    /\ items \in VItems
    /\ rounds \in VRounds
    /\ verify_result = "none"
    /\ emit_called = FALSE /\ output = <<>> /\ exit_code = -1

\* a call verify_rounds(rounds, items) on any schedule
VerifyCall ==
    /\ g_pc = "vstart"
    /\ verify_result' = IF verify_rounds(rounds, items) THEN "True" ELSE "False"
    /\ g_pc' = "vdone"
    /\ UNCHANGED <<args, items, rounds, emit_called, output, exit_code>>

----------------------------------------------------------------------------
(* Staleness priority queue: orchestrator.py and utils/functions.py        *)

Nodes == {"n1", "n2", "n3"}

TEST_AGE_THRESHOLD_DAYS == 7

\* The clock reading at which the model starts (seconds since the epoch).
StartTime == 700000

\* orchestrator.py: the comparison of a node's age with the threshold,
\* with ">=" for ">".
OrchStaleAtLeast(last_ts, t) == t - last_ts >= TEST_AGE_THRESHOLD_DAYS * 24 * 3600

\* orchestrator.py: age = current_time - last_ts; age > threshold_seconds
OrchStale(last_ts, t) == t - last_ts > TEST_AGE_THRESHOLD_DAYS * 24 * 3600

\* orchestrator.py: the keys of priority_list, float('inf') or a timestamp
OrchKeyLess(x, y) == ~x.inf /\ (y.inf \/ x.key < y.key)

\* priority_list.sort(key=lambda x: x[0]).  The sort is stable: an entry goes
\* behind the entries whose key is not greater than its own.
OrchInsert(sorted, x) ==
    LET greater == {i \in 1..Len(sorted) : OrchKeyLess(x, sorted[i])}
        k == IF greater = {} THEN Len(sorted) + 1
             ELSE CHOOSE i \in greater : \A j \in greater : i <= j
    IN  SubSeq(sorted, 1, k - 1) \o <<x>> \o SubSeq(sorted, k, Len(sorted))

OrchSort(s) ==
    LET F[i \in 0..Len(s)] == IF i = 0 THEN <<>> ELSE OrchInsert(F[i - 1], s[i])
    IN  F[Len(s)]

\* orchestrator.py: build_priority_queue.  free_order is the set free_nodes
\* in the order the for loops visit it, latest_results maps a node to its
\* latest row, t is current_time = int(time.time()).
build_priority_queue(free_order, latest_results, t) ==
    LET Entry(i) ==
            LET node == free_order[i]
            IN  IF node \notin DOMAIN latest_results
                THEN <<[inf |-> TRUE, key |-> 0, node |-> node]>>
                ELSE IF OrchStale(latest_results[node].timestamp, t)
                     THEN <<[inf |-> FALSE, key |-> latest_results[node].timestamp, node |-> node]>>
                     ELSE <<>>
        Collect[i \in 0..Len(free_order)] ==
            IF i = 0 THEN <<>> ELSE Collect[i - 1] \o Entry(i)
        priority_list == Collect[Len(free_order)]
        NeverTested(node) == node \notin DOMAIN latest_results
        never_tested == SelectSeq(free_order, NeverTested)
        sorted == OrchSort(priority_list)
    IN  never_tested \o [i \in 1..Len(sorted) |-> sorted[i].node]

\* utils/functions.py: last_ts == 0 or age > threshold_seconds, where
\* now = t + half/2 seconds is a float and last_ts an int.
UtilsQualifies(last_ts, t, half, days) ==
    last_ts = 0 \/ 2 * (t - last_ts) + half > 2 * (days * 86400)

UtilsTsLess(x, y) == x.ts < y.ts

\* candidate_list.sort(key=lambda x: x['ts']), a stable sort
UtilsInsert(sorted, x) ==
    LET greater == {i \in 1..Len(sorted) : UtilsTsLess(x, sorted[i])}
        k == IF greater = {} THEN Len(sorted) + 1
             ELSE CHOOSE i \in greater : \A j \in greater : i <= j
    IN  SubSeq(sorted, 1, k - 1) \o <<x>> \o SubSeq(sorted, k, Len(sorted))

UtilsSort(s) ==
    LET F[i \in 0..Len(s)] == IF i = 0 THEN <<>> ELSE UtilsInsert(F[i - 1], s[i])
    IN  F[Len(s)]

\* utils/functions.py: build_priority_queue up to the ordering step:
\* the candidate_list in the order of free_nodes_list.
utils_candidate_list(free_nodes_list, db_latest_status_map, t, half, days) ==
    LET Get(node) == IF node \in DOMAIN db_latest_status_map
                     THEN db_latest_status_map[node] ELSE 0
        Cand[i \in 0..Len(free_nodes_list)] ==
            IF i = 0 THEN <<>>
            ELSE Cand[i - 1] \o
                 (IF UtilsQualifies(Get(free_nodes_list[i]), t, half, days)
                  THEN <<[node |-> free_nodes_list[i], ts |-> Get(free_nodes_list[i])]>>
                  ELSE <<>>)
    IN  Cand[Len(free_nodes_list)]

\* the priority_queue rows [node, idx + 1, False] of an ordered candidate list
utils_rows(candidate_list) ==
    [i \in 1..Len(candidate_list) |-> <<candidate_list[i].node, i, FALSE>>]

\* all orders random.shuffle can leave a list in
Shuffles(s) ==
    {[i \in 1..Len(s) |-> s[f[i]]] :
        f \in {g \in [1..Len(s) -> 1..Len(s)] : \A i, j \in 1..Len(s) : i # j => g[i] # g[j]}}

\* utils/functions.py: the results build_priority_queue can return
utils_build_priority_queue(free_nodes_list, db_latest_status_map, t, half, days, shuffle) ==
    LET candidate_list == utils_candidate_list(free_nodes_list, db_latest_status_map, t, half, days)
    IN  IF shuffle
        THEN {utils_rows(c) : c \in Shuffles(candidate_list)}
        ELSE {utils_rows(UtilsSort(candidate_list))}

\* Inputs of the queue builders: every order of every subset of the nodes,
\* and latest timestamps around the thresholds.
NodeOrders == {o \in SeqsUpTo(Nodes, Cardinality(Nodes)) : Distinct(o)}

QStamps ==
    {0, StartTime - TEST_AGE_THRESHOLD_DAYS * 86400 - 1,
        StartTime - TEST_AGE_THRESHOLD_DAYS * 86400,
        StartTime - 1, StartTime, StartTime + 1}

PartialMaps(D, R) == UNION {[S -> R] : S \in SUBSET D}

\* the rows of latest_status as get_latest_results stores them
LatestRecords(m) ==
    [n \in DOMAIN m |-> [timestamp |-> m[n], result |-> "pass", test |-> "storage"]]

QueueIdle ==
    /\ q_pc = "idle" /\ q_free = <<>> /\ q_latest = <<>> /\ q_now = 0 /\ q_half = 0
    /\ q_days = 0 /\ q_shuffle = FALSE /\ q_queue = <<>> /\ u_queue = <<>>

QueueInit ==
    /\ q_pc = "start"
    /\ q_free \in NodeOrders
    /\ q_latest \in PartialMaps(Nodes, QStamps)
    /\ q_now = StartTime
    /\ q_half \in {0, 1}
    /\ q_days \in {0, TEST_AGE_THRESHOLD_DAYS}
    /\ q_shuffle \in BOOLEAN
    /\ q_queue = <<>> /\ u_queue = <<>>

\* a call of orchestrator.build_priority_queue
OrchBuildQueue ==
    /\ q_pc = "start"
    /\ q_queue' = build_priority_queue(q_free, LatestRecords(q_latest), q_now)
    /\ q_pc' = "orch"
    /\ UNCHANGED <<q_free, q_latest, q_now, q_half, q_days, q_shuffle, u_queue>>

\* a call of utils.functions.build_priority_queue
UtilsBuildQueue ==
    /\ q_pc = "orch"
    /\ u_queue' \in utils_build_priority_queue(q_free, q_latest, q_now, q_half, q_days, q_shuffle)
    /\ q_pc' = "done"
    /\ UNCHANGED <<q_free, q_latest, q_now, q_half, q_days, q_shuffle, q_queue>>

QueueNext == OrchBuildQueue \/ UtilsBuildQueue

----------------------------------------------------------------------------
(* orchestrator.py: the Result Store and the logs directory                *)

MAX_CONCURRENT_JOBS == 2
MAX_QUEUE_TIME_MINS == 30
NODE_CHECK_INTERVAL_MINS == 5

\* Bounds of the orchestrator model.
MaxCycles == 2
MaxLogs == 1

Tests == {"nccl", "storage"}

\* the test directory the orchestrator's jobs log to
JobTests == {"storage"}

\* ORDER BY test: the order of the test names as strings
TestRank == [nccl |-> 1, storage |-> 2]

\* What a log file of a job says: the words of "pass" and "fail" it
\* contains; a job that passed, and a job that left neither word.
LogContents == {{"pass"}, {}}

\* fetch_and_update_results: the result read from a log file
ResultOfContent(content) ==
    IF "pass" \in content THEN "pass"
    ELSE IF "fail" \in content THEN "fail"
    ELSE "incomplete"

\* insert_run: INSERT INTO runs
insert_run(rs, node, test, epoch_ts, result) ==
    Append(rs, [node |-> node, test |-> test, timestamp |-> epoch_ts, result |-> result])

\* The view latest_status: the rows of runs that carry the maximum
\* timestamp of their (node, test).
latest_status(rs) ==
    {[node |-> rs[i].node, test |-> rs[i].test,
      latest_timestamp |-> rs[i].timestamp, result |-> rs[i].result] :
        i \in {k \in 1..Len(rs) :
                 \A j \in 1..Len(rs) :
                    (rs[j].node = rs[k].node /\ rs[j].test = rs[k].test)
                        => rs[j].timestamp <= rs[k].timestamp}}

\* fetch_and_update_results: the cache {(node, test): latest_timestamp}
LatestCache(rs) ==
    [key \in {<<r.node, r.test>> : r \in latest_status(rs)} |->
        (CHOOSE r \in latest_status(rs) : r.node = key[1] /\ r.test = key[2]).latest_timestamp]

\* the test of a log file with "<" for "<="
NotNewerStrict(cache, f) ==
    <<f.node, f.test>> \in DOMAIN cache /\ f.timestamp < cache[<<f.node, f.test>>]

\* fetch_and_update_results: (node, test_name) in latest_status and
\* timestamp <= latest_status[(node, test_name)]
NotNewer(cache, f) ==
    <<f.node, f.test>> \in DOMAIN cache /\ f.timestamp <= cache[<<f.node, f.test>>]

RECURSIVE FetchWalk(_, _, _)
\* fetch_and_update_results: the walk over the log files, in the order
\* os.walk yields them; a file not newer than the cached latest timestamp
\* of its (node, test) is skipped, any other is inserted.
FetchWalk(files, rs, cache) ==
    IF files = <<>> THEN rs
    ELSE LET f == Head(files)
             key == <<f.node, f.test>>
         IN  IF NotNewer(cache, f)
             THEN FetchWalk(Tail(files), rs, cache)
             ELSE FetchWalk(Tail(files),
                            insert_run(rs, f.node, f.test, f.timestamp, ResultOfContent(f.content)),
                            [k \in DOMAIN cache \cup {key} |->
                                IF k = key THEN f.timestamp ELSE cache[k]])

fetch_and_update_results(files, rs) == FetchWalk(files, rs, LatestCache(rs))

\* the orders in which a finite set can be visited
RECURSIVE SetOrders(_)
SetOrders(S) ==
    IF S = {} THEN {<<>>}
    ELSE UNION {{<<x>> \o o : o \in SetOrders(S \ {x})} : x \in S}

\* get_latest_results: the rows are visited ORDER BY node, test and each
\* overwrites results[node], so the row of the node's last test name stays;
\* which of several rows with the same key comes last is not specified.
get_latest_results(rs) ==
    LET rows == latest_status(rs)
        LastRows(n) == {r \in rows : r.node = n /\
                          \A q \in rows : q.node = n => TestRank[q.test] <= TestRank[r.test]}
        tested == {r.node : r \in rows}
        AsResult(r) == [timestamp |-> r.latest_timestamp, result |-> r.result, test |-> r.test]
    IN  {m \in [tested -> {AsResult(r) : r \in rows}] :
            \A n \in tested : \E r \in LastRows(n) : m[n] = AsResult(r)}

----------------------------------------------------------------------------
(* orchestrator.py: main                                                   *)

\* check_job_status: 'running', 'completed', 'failed', 'pending'
JobStatuses == {"running", "completed", "failed", "pending"}

\* How much longer than NODE_CHECK_INTERVAL_MINS a cycle's sleep and the
\* rest of the cycle can take.  After the longer one the job submitted last
\* in the cycle before is exactly MAX_QUEUE_TIME_MINS old, and a job
\* submitted a second earlier is older than that.
Delays == {0, MAX_QUEUE_TIME_MINS * 60 - NODE_CHECK_INTERVAL_MINS * 60}

ActiveNodes(jobs) == {j.node : j \in jobs}

JobEntry(node, job_id, submitted_at) ==
    [node |-> node, job_id |-> job_id, submitted_at |-> submitted_at]

\* active_jobs kept as a list of entries: a submission appends.
DictAppend(jobs, node, job_id, submitted_at) ==
    jobs \cup {JobEntry(node, job_id, submitted_at)}

\* active_jobs[node] = {'job_id': ..., 'submitted_at': ...}: the entry of
\* the key is replaced
DictSet(jobs, node, job_id, submitted_at) ==
    {j \in jobs : j.node # node} \cup {JobEntry(node, job_id, submitted_at)}

\* the free slots, counted without the active jobs
FreeSlotsNoActive(jobs) == MAX_CONCURRENT_JOBS

\* free_slots = MAX_CONCURRENT_JOBS - len(active_jobs)
FreeSlots(jobs) == MAX_CONCURRENT_JOBS - Cardinality(jobs)

Event(kind, node, job_id, submitted_at, status) ==
    [kind |-> kind, node |-> node, job_id |-> job_id,
     submitted_at |-> submitted_at, status |-> status]

\* the timeout test with the limit taken for hours
TimedOutHours(job, t) == t - job.submitted_at > MAX_QUEUE_TIME_MINS * 3600

\* the timeout test with ">=" for ">"
TimedOutAtLeast(job, t) == t - job.submitted_at >= MAX_QUEUE_TIME_MINS * 60

\* main: duration_mins = (current_time - submitted_at) / 60;
\*       duration_mins > MAX_QUEUE_TIME_MINS
TimedOut(job, t) == t - job.submitted_at > MAX_QUEUE_TIME_MINS * 60

RECURSIVE SubmitLoopAborts(_, _, _, _)
\* the submission loop with the try around the whole loop: the first
\* submit_job that raises ends the loop
SubmitLoopAborts(queue, i, fails, st) ==
    IF i > Len(queue) \/ st.free_slots <= 0 THEN st
    ELSE LET node == queue[i]
         IN  IF i \in fails
             THEN [st EXCEPT !.events = @ \cup {Event("submit_failed", node, <<>>, 0, "-")}]
             ELSE LET job_id == <<node, st.clock>>
                      at == st.clock + 1
                  IN  SubmitLoopAborts(queue, i + 1, fails,
                        [jobs |-> DictSet(st.jobs, node, job_id, at),
                         free_slots |-> st.free_slots - 1,
                         clock |-> at,
                         events |-> st.events \cup {Event("submit", node, job_id, at, "-")}])

RECURSIVE SubmitLoop(_, _, _, _)
\* main: "for node in node_queue" of the submission phase.  st is the
\* loop's state: the active jobs, the free slots, the clock and the events;
\* fails are the positions of the queue at which submit_job raises.
\* submit_job names the job after the clock and sleeps one second.
SubmitLoop(queue, i, fails, st) ==
    IF i > Len(queue) \/ st.free_slots <= 0 THEN st
    ELSE LET node == queue[i]
         IN  IF i \in fails
             THEN SubmitLoop(queue, i + 1, fails,
                    [st EXCEPT !.events = @ \cup {Event("submit_failed", node, <<>>, 0, "-")}])
             ELSE LET job_id == <<node, st.clock>>
                      at == st.clock + 1
                  IN  SubmitLoop(queue, i + 1, fails,
                        [jobs |-> DictSet(st.jobs, node, job_id, at),
                         free_slots |-> st.free_slots - 1,
                         clock |-> at,
                         events |-> st.events \cup {Event("submit", node, job_id, at, "-")}])

\* The order in which this process visits the elements of a set of node
\* names (the for loops over free_nodes): the order of their hash slots.
HashOrder == <<"n1", "n2", "n3">>

VisitOrder(S) == LET In(n) == n \in S IN SelectSeq(HashOrder, In)

OrchIdle ==
    /\ pc = "idle" /\ now = 0 /\ current_time = 0 /\ active_jobs = {}
    /\ nodes_to_remove = {} /\ node_queue = <<>> /\ runs = <<>> /\ logs = {}
    /\ events = {} /\ cycles = 0

\* The store the orchestrator starts on: a recent result of n1, an old
\* result of n2, none of n3.
InitialStores ==
    {<<[node |-> "n1", test |-> "storage", timestamp |-> StartTime - 100, result |-> "pass"],
       [node |-> "n2", test |-> "nccl",
        timestamp |-> StartTime - TEST_AGE_THRESHOLD_DAYS * 24 * 3600 - 1, result |-> "fail"]>>}

OrchInit ==
    /\ pc = "fetch"
    /\ now = StartTime
    /\ current_time = 0
    /\ active_jobs = {}
    /\ nodes_to_remove = {}
    /\ node_queue = <<>>
    /\ runs \in InitialStores
    /\ logs = {}
    /\ events = {}
    /\ cycles = 1

\* the orchestrator started on a store without run records: no node was
\* ever tested
OrchFreshInit ==
    /\ pc = "fetch"
    /\ now = StartTime
    /\ current_time = 0
    /\ active_jobs = {}
    /\ nodes_to_remove = {}
    /\ node_queue = <<>>
    /\ runs = <<>>
    /\ logs = {}
    /\ events = {}
    /\ cycles = 1

\* main, start of a cycle: current_time = time.time(); fetch_and_update_results()
Fetch ==
    /\ pc = "fetch"
    /\ current_time' = now
    /\ \E order \in SetOrders(logs) : runs' = fetch_and_update_results(order, runs)
    /\ pc' = "poll"
    /\ UNCHANGED <<now, active_jobs, nodes_to_remove, node_queue, logs, events, cycles>>

\* main, "Check active jobs": time out or poll every active job, then
\* delete the entries of nodes_to_remove.  status is what check_job_status
\* returns for each polled job.
Poll ==
    /\ pc = "poll"
    /\ \E status \in [active_jobs -> JobStatuses] :
        LET timed == {j \in active_jobs : TimedOut(j, current_time)}
            finished == {j \in active_jobs \ timed : status[j] \in {"completed", "failed"}}
        IN  /\ nodes_to_remove' = {j.node : j \in timed \cup finished}
            /\ events' = events
                 \cup {Event("timeout", j.node, j.job_id, j.submitted_at, "-") : j \in timed}
                 \cup {Event("cancel", j.node, j.job_id, j.submitted_at, "-") : j \in timed}
                 \cup {Event("finished", j.node, j.job_id, j.submitted_at, status[j]) : j \in finished}
            /\ active_jobs' = {j \in active_jobs : j.node \notin {k.node : k \in timed \cup finished}}
    /\ pc' = "plan"
    /\ UNCHANGED <<now, current_time, node_queue, runs, logs, cycles>>

\* a failed lookup answered with every node
FreeNodesOnErrorAll == Nodes

\* get_free_nodes: "return set()" of the missing file and of the two
\* except branches
FreeNodesOnError == {}

\* main, phases 3 to 5: free_nodes = get_free_nodes(), latest_results =
\* get_latest_results() ({} when the store cannot be read), available_nodes,
\* node_queue.  When the lookup of the free nodes fails (freenodes.sh exits
\* with an error, its output file is missing, any exception), get_free_nodes
\* logs the failure and returns the empty set.
Plan ==
    /\ pc = "plan"
    /\ \E db_ok \in BOOLEAN :
        \E latest_results \in (IF db_ok THEN get_latest_results(runs) ELSE {<<>>}) :
            \/ \E free_nodes \in SUBSET Nodes :
                    LET available_nodes == {n \in free_nodes : n \notin ActiveNodes(active_jobs)}
                    IN  /\ node_queue' = build_priority_queue(VisitOrder(available_nodes), latest_results, now)
                        /\ events' = events
            \/ LET free_nodes == FreeNodesOnError
                    available_nodes == {n \in free_nodes : n \notin ActiveNodes(active_jobs)}
                IN  /\ node_queue' = build_priority_queue(VisitOrder(available_nodes), latest_results, now)
                    /\ events' = events \cup {Event("free_nodes_error", "-", <<>>, 0, "-")}
    /\ pc' = "submit"
    /\ UNCHANGED <<now, current_time, active_jobs, nodes_to_remove, runs, logs, cycles>>

\* main, "Job submission".  At most one submit_job call of a cycle raises.
Submit ==
    /\ pc = "submit"
    /\ \E fails \in {{}} \cup {{i} : i \in 1..Len(node_queue)} :
        LET st0 == [jobs |-> active_jobs, free_slots |-> FreeSlots(active_jobs),
                    clock |-> now, events |-> events]
            st == IF st0.free_slots > 0 /\ node_queue # <<>>
                  THEN SubmitLoop(node_queue, 1, fails, st0)
                  ELSE st0
        IN  /\ active_jobs' = st.jobs
            /\ now' = st.clock
            /\ events' = st.events
    /\ pc' = "sleep"
    /\ UNCHANGED <<current_time, nodes_to_remove, node_queue, runs, logs, cycles>>

\* main: time.sleep(NODE_CHECK_INTERVAL_MINS * 60), then the next cycle.
\* current_time, nodes_to_remove and node_queue are not read again before
\* the next cycle assigns them, and the events are those of one cycle: they
\* are reset here.
Sleep ==
    /\ pc = "sleep"
    /\ cycles < MaxCycles
    /\ \E d \in Delays : now' = now + NODE_CHECK_INTERVAL_MINS * 60 + d
    /\ cycles' = cycles + 1
    /\ nodes_to_remove' = {}
    /\ node_queue' = <<>>
    /\ events' = {}
    /\ current_time' = 0
    /\ pc' = "fetch"
    /\ UNCHANGED <<active_jobs, runs, logs>>

\* an exception that leaves the while loop: main returns
CycleExceptionEndsLoop ==
    /\ pc \in {"fetch", "poll"}
    /\ pc' = "stopped"
    /\ current_time' = 0
    /\ nodes_to_remove' = {}
    /\ events' = {}
    /\ UNCHANGED <<now, cycles, active_jobs, node_queue, runs, logs>>

\* main, "except Exception": an error in fetch_and_update_results or in a
\* status poll ends the cycle before active_jobs is touched; the loop sleeps
\* 60 seconds and starts the next cycle.
CycleException ==
    /\ pc \in {"fetch", "poll"}
    /\ cycles < MaxCycles
    /\ current_time' = 0
    /\ nodes_to_remove' = {}
    /\ events' = {}
    /\ now' = now + 60
    /\ cycles' = cycles + 1
    /\ pc' = "fetch"
    /\ UNCHANGED <<active_jobs, node_queue, runs, logs>>

\* main, "except KeyboardInterrupt": the operator stops the loop (taken
\* during the sleep, where the loop spends its time); main returns and the
\* values of a cycle are gone.
Stop ==
    /\ pc = "sleep"
    /\ pc' = "stopped"
    /\ current_time' = 0
    /\ nodes_to_remove' = {}
    /\ node_queue' = <<>>
    /\ events' = {}
    /\ UNCHANGED <<now, active_jobs, runs, logs, cycles>>

\* A benchmark job, outside the orchestrator, leaves its log file
\* LOGS_DIR/<test>/Node_<node>/..._<timestamp>.log: one file per job, for a
\* node the job of which is active.  The logs are read by
\* fetch_and_update_results only, so the file appears before a cycle starts.
JobWritesLog ==
    /\ pc = "fetch"
    /\ Cardinality(logs) < MaxLogs
    /\ \E j \in active_jobs, t \in JobTests, c \in LogContents :
        /\ \A f \in logs : f.node = j.node => f.timestamp < j.submitted_at
        /\ logs' = logs \cup {[node |-> j.node, test |-> t, timestamp |-> now, content |-> c]}
    /\ UNCHANGED <<pc, now, current_time, active_jobs, nodes_to_remove, node_queue, runs, events, cycles>>

OrchNext == Fetch \/ Poll \/ Plan \/ Submit \/ Sleep \/ CycleException \/ Stop \/ JobWritesLog

----------------------------------------------------------------------------
(* The Result Store: result_manager.py and the store calls of              *)
(* orchestrator.py on one table runs                                       *)

\* Bound of the store model: the number of rows of the table runs.
MaxRuns == 3

\* Result strings, as code points: the three allowed ones, "incomplete"
\* among them, one that differs from "pass" in case and blanks (" Pass "),
\* and one that is no result ("bogus").
res_pass == <<112, 97, 115, 115>>
res_fail == <<102, 97, 105, 108>>
res_incomplete == <<105, 110, 99, 111, 109, 112, 108, 101, 116, 101>>
res_Pass_blanks == <<32, 80, 97, 115, 115, 32>>
res_bogus == <<98, 111, 103, 117, 115>>

\* ALLOWED_RESULTS = {"pass", "fail", "incomplete"}
ALLOWED_RESULTS == {res_pass, res_fail, res_incomplete}

\* the results a caller passes to insert_run
RawResults == {res_pass, res_fail, res_Pass_blanks, res_bogus}

\* str.lower(): the letters A..Z become a..z
Lower(s) == [i \in 1..Len(s) |-> IF s[i] >= 65 /\ s[i] <= 90 THEN s[i] + 32 ELSE s[i]]

\* result_manager.py, insert_run: result = result.strip().lower()
NormalizeResult(result) == Lower(Strip(result))

\* CHECK (result IN ('pass','fail','incomplete')) of the table runs
TableCheck(result) == result \in ALLOWED_RESULTS

StoreNodes == {"n1", "n2"}
StoreStamps == {100, 200}

\* ORDER BY node: the order of the node names as strings
NodeRank == [n1 |-> 1, n2 |-> 2, n3 |-> 3]

\* the view made of the rows inserted last for their (node, test)
LatestRowIdsByRowid(rs) ==
    {k \in 1..Len(rs) :
        \A j \in 1..Len(rs) :
            (rs[j].node = rs[k].node /\ rs[j].test = rs[k].test) => j <= k}

\* the rowids of the rows the view latest_status is made of: the join of
\* runs with the maximum timestamp of each (node, test) keeps every row
\* that carries the maximum of its key
LatestRowIds(rs) ==
    {k \in 1..Len(rs) :
        \A j \in 1..Len(rs) :
            (rs[j].node = rs[k].node /\ rs[j].test = rs[k].test)
                => rs[j].timestamp <= rs[k].timestamp}

\* query_latest_status: SELECT ... FROM latest_status ORDER BY node, test.
\* One row for each row of the view; the order of rows with the same node
\* and test is not specified, so the possible row lists are returned.
query_latest_status(rs) ==
    LET KeyBefore(a, b) ==
            \/ NodeRank[rs[a].node] < NodeRank[rs[b].node]
            \/ (rs[a].node = rs[b].node /\ TestRank[rs[a].test] <= TestRank[rs[b].test])
        orders == {o \in SetOrders(LatestRowIds(rs)) :
                      \A i, j \in 1..Len(o) : i < j => KeyBefore(o[i], o[j])}
    IN  {[i \in 1..Len(o) |->
            [node |-> rs[o[i]].node, test |-> rs[o[i]].test,
             latest_timestamp |-> rs[o[i]].timestamp, result |-> rs[o[i]].result]] :
         o \in orders}

StoreReturn(op, error, rows) == [op |-> op, error |-> error, rows |-> rows]

\* The metric tables storage_performance and nccl_performance of
\* utils/functions.py, PRIMARY KEY (node, timestamp): a table is the set of
\* its rows.

\* Bound of the metric model: the number of inserts.
MaxMetricInserts == 3

\* the timestamps given to the inserts, in half seconds: 100.0, 100.5 and
\* 200.0 seconds as int or float
MetricStamps == {200, 201, 400}

\* parse_timestamp of a number: int(timestamp_str), of a non-negative float
\* its whole seconds
parse_timestamp(half_seconds) == half_seconds \div 2

\* What one sample measures.  For storage_performance it stands for the
\* twelve metrics read from the fio files of results_dir, 0 for the values
\* a directory without fio files leaves; for nccl_performance for
\* (float(busbw), float(latency)).
MetricValues == {0, 1}

MetricRow(node, timestamp, value) == [node |-> node, timestamp |-> timestamp, value |-> value]

\* INSERT INTO a table without the primary key: the row is added
InsertRow(table, row) == table \cup {row}

\* INSERT OR REPLACE INTO a table with PRIMARY KEY (node, timestamp): the
\* row of the same key is deleted, the new row is added
InsertOrReplace(table, row) ==
    {r \in table : ~(r.node = row.node /\ r.timestamp = row.timestamp)} \cup {row}

MetricReturn(op, row, error) == [op |-> op, row |-> row, error |-> error]

MetricsIdle ==
    /\ m_storage = {} /\ m_nccl = {} /\ m_count = 0
    /\ m_ret = MetricReturn("idle", MetricRow("-", 0, 0), "none")

\* utils/functions.py: add_storage_result_local(node, timestamp, results_dir);
\* without the results directory the process exits before the database is
\* opened
AddStorageResultLocal ==
    /\ m_count < MaxMetricInserts
    /\ m_count' = m_count + 1
    /\ \E node \in StoreNodes, given \in MetricStamps, value \in MetricValues, dir_exists \in BOOLEAN :
        LET row == MetricRow(node, parse_timestamp(given), value)
        IN  IF ~dir_exists
            THEN /\ m_ret' = MetricReturn("add_storage", row, "exit")
                 /\ UNCHANGED <<m_storage, m_nccl>>
            ELSE /\ m_storage' = InsertOrReplace(m_storage, row)
                 /\ m_ret' = MetricReturn("add_storage", row, "none")
                 /\ UNCHANGED m_nccl
    /\ UNCHANGED <<s_runs, s_ret, s_given, s_schema>>

\* utils/functions.py: add_nccl_result_local(node, timestamp, busbw, latency)
AddNcclResultLocal ==
    /\ m_count < MaxMetricInserts
    /\ m_count' = m_count + 1
    /\ \E node \in StoreNodes, given \in MetricStamps, value \in MetricValues :
        LET row == MetricRow(node, parse_timestamp(given), value)
        IN  /\ m_nccl' = InsertOrReplace(m_nccl, row)
            /\ m_ret' = MetricReturn("add_nccl", row, "none")
            /\ UNCHANGED m_storage
    /\ UNCHANGED <<s_runs, s_ret, s_given, s_schema>>

MetricsNext == AddStorageResultLocal \/ AddNcclResultLocal

\* Concurrent writers of the table runs: the control loop (orchestrator.py,
\* insert_run on the connection of fetch_and_update_results) and a result
\* producer (utils/functions.py, add_result_local), two processes with a
\* connection each to the same database file.  A connection writes in a
\* transaction: conn.execute(INSERT) takes the write lock of the file and
\* prepares the new content of the table from the content it reads,
\* conn.commit() writes it to the file and gives the lock back.  A
\* connection that finds the lock taken waits (timeout=30, busy_timeout) and
\* then fails with "database is locked".

\* Bound of the writers model: the number of insert calls.
MaxWrites == 3

Writers == {"orch", "prod"}

\* the rows the writers insert
WriterRows ==
    {[node |-> "n1", test |-> "storage", timestamp |-> ts, result |-> r] :
        ts \in StoreStamps, r \in {"pass", "fail"}}

NoRow == [node |-> "-", test |-> "-", timestamp |-> 0, result |-> "-"]

\* a connection outside a call
WriterIdle(ret) == [pc |-> "idle", row |-> NoRow, image |-> <<>>, ret |-> ret]

\* the write lock is taken without a look at its holder
LockIgnored(lock, w) == TRUE

\* the write lock of the database file can be taken by connection w
LockFree(lock, w) == lock = "none"

WritersIdle ==
    /\ w_table = <<>> /\ w_lock = "none" /\ w_done = <<>> /\ w_calls = 0
    /\ w_proc = [w \in Writers |-> WriterIdle("none")]

\* a call insert_run(conn, node, test, epoch_ts, result) or
\* add_result_local(node, test, result, timestamp)
WriterCall(w) ==
    /\ w_proc[w].pc = "idle"
    /\ w_calls < MaxWrites
    /\ w_calls' = w_calls + 1
    /\ \E row \in WriterRows :
        w_proc' = [w_proc EXCEPT ![w] = [pc |-> "called", row |-> row, image |-> <<>>, ret |-> "none"]]
    /\ UNCHANGED <<w_table, w_lock, w_done>>

\* conn.execute("INSERT INTO runs ...") with the lock free
WriterExecute(w) ==
    /\ w_proc[w].pc = "called"
    /\ LockFree(w_lock, w)
    /\ w_lock' = w
    /\ w_proc' = [w_proc EXCEPT ![w].pc = "executed",
                                ![w].image = Append(w_table, w_proc[w].row)]
    /\ UNCHANGED <<w_table, w_done, w_calls>>

\* conn.execute("INSERT INTO runs ...") with the lock taken for longer than
\* the timeout: sqlite3.OperationalError, the call fails
WriterBusy(w) ==
    /\ w_proc[w].pc = "called"
    /\ ~LockFree(w_lock, w)
    /\ w_proc' = [w_proc EXCEPT ![w] = WriterIdle("locked")]
    /\ UNCHANGED <<w_table, w_lock, w_done, w_calls>>

\* conn.commit(): the call returns without an error
WriterCommit(w) ==
    /\ w_proc[w].pc = "executed"
    /\ w_table' = w_proc[w].image
    /\ w_lock' = IF w_lock = w THEN "none" ELSE w_lock
    /\ w_done' = Append(w_done, w_proc[w].row)
    /\ w_proc' = [w_proc EXCEPT ![w] = WriterIdle("ok")]
    /\ UNCHANGED w_calls

\* the process ends between execute and commit: the transaction is rolled
\* back
WriterKilled(w) ==
    /\ w_proc[w].pc = "executed"
    /\ w_lock' = IF w_lock = w THEN "none" ELSE w_lock
    /\ w_proc' = [w_proc EXCEPT ![w] = WriterIdle("killed")]
    /\ UNCHANGED <<w_table, w_done, w_calls>>

OrchWriterCall == WriterCall("orch")
OrchWriterExecute == WriterExecute("orch")
OrchWriterBusy == WriterBusy("orch")
OrchWriterCommit == WriterCommit("orch")
OrchWriterKilled == WriterKilled("orch")
ProdWriterCall == WriterCall("prod")
ProdWriterExecute == WriterExecute("prod")
ProdWriterBusy == WriterBusy("prod")
ProdWriterCommit == WriterCommit("prod")
ProdWriterKilled == WriterKilled("prod")

WritersNext ==
    \/ OrchWriterCall \/ OrchWriterExecute \/ OrchWriterBusy
    \/ OrchWriterCommit \/ OrchWriterKilled
    \/ ProdWriterCall \/ ProdWriterExecute \/ ProdWriterBusy
    \/ ProdWriterCommit \/ ProdWriterKilled

\* sqlite_master: the tables, indexes and views of a database, in the order
\* of their creation
SchemaEntry(type, name) == [type |-> type, name |-> name]

HasName(schema, name) == \E i \in 1..Len(schema) : schema[i].name = name

\* the state of a script of schema statements: the statements after a failed
\* one are not executed
SchemaOk(schema) == [schema |-> schema, error |-> "none"]

\* CREATE TABLE / INDEX / VIEW name: an error when the name exists
Create(db, type, name) ==
    IF db.error # "none" THEN db
    ELSE IF HasName(db.schema, name) THEN [db EXCEPT !.error = "OperationalError"]
    ELSE [db EXCEPT !.schema = Append(@, SchemaEntry(type, name))]

\* CREATE TABLE / INDEX / VIEW IF NOT EXISTS name
CreateIfNotExists(db, type, name) ==
    IF db.error # "none" \/ HasName(db.schema, name) THEN db
    ELSE [db EXCEPT !.schema = Append(@, SchemaEntry(type, name))]

\* the script without its DROP VIEW statement
DropViewSkipped(db, name) == db

\* DROP VIEW IF EXISTS name
DropViewIfExists(db, name) ==
    IF db.error # "none" THEN db
    ELSE LET Other(e) == ~(e.type = "view" /\ e.name = name)
         IN  [db EXCEPT !.schema = SelectSeq(@, Other)]

\* init_db of result_manager.py and of orchestrator.py: the same three
\* statements
init_db(schema) ==
    CreateIfNotExists(
        CreateIfNotExists(
            CreateIfNotExists(SchemaOk(schema), "table", "runs"),
            "index", "idx_runs_node_test_ts"),
        "view", "latest_status")

\* utils/functions.py, init_storage_db: the script run on the pod
init_storage_db(schema) ==
    Create(
        DropViewIfExists(
            CreateIfNotExists(
                CreateIfNotExists(SchemaOk(schema), "table", "storage_performance"),
                "index", "idx_perf_node_ts"),
            "latest_node_performance_stats"),
        "view", "latest_node_performance_stats")

\* fetch_and_update_results is not running
FetchIdle == f_pc = "idle" /\ f_cache = <<>> /\ f_todo = <<>>

\* no database file yet
NoSchema == [results |-> <<>>, storage |-> <<>>]

\* both databases after their first initialization
InitialSchema ==
    [results |-> init_db(<<>>).schema, storage |-> init_storage_db(<<>>).schema]

StoreIdle ==
    /\ s_runs = <<>> /\ s_ret = StoreReturn("idle", "none", <<>>) /\ s_given = <<>>
    /\ s_schema = NoSchema
    /\ MetricsIdle
    /\ WritersIdle
    /\ FetchIdle

\* the store after init_db: the table runs is empty
StoreInit ==
    /\ s_runs = <<>> /\ s_ret = StoreReturn("init", "none", <<>>) /\ s_given = <<>>
    /\ s_schema = InitialSchema
    /\ MetricsIdle
    /\ WritersIdle
    /\ FetchIdle

\* result_manager.py: init_db(conn) on the results database
RmInitDb ==
    /\ LET db == init_db(s_schema.results)
       IN  /\ s_schema' = [s_schema EXCEPT !.results = db.schema]
           /\ s_ret' = StoreReturn("init", db.error, <<>>)
    /\ s_given' = <<>>
    /\ UNCHANGED s_runs

\* orchestrator.py: init_db(conn) on the results database
OrchInitDb ==
    /\ LET db == init_db(s_schema.results)
       IN  /\ s_schema' = [s_schema EXCEPT !.results = db.schema]
           /\ s_ret' = StoreReturn("init", db.error, <<>>)
    /\ s_given' = <<>>
    /\ UNCHANGED s_runs

\* utils/functions.py: init_storage_db() on the storage database; an error
\* ends the script with exit status 1 and nothing committed
InitStorageDb ==
    /\ LET db == init_storage_db(s_schema.storage)
       IN  /\ s_schema' = IF db.error = "none"
                          THEN [s_schema EXCEPT !.storage = db.schema] ELSE s_schema
           /\ s_ret' = StoreReturn("init_storage", db.error, <<>>)
    /\ s_given' = <<>>
    /\ UNCHANGED s_runs

\* result_manager.py: insert_run(conn, node, test, epoch_ts, result)
RmInsertRun ==
    /\ Len(s_runs) < MaxRuns
    /\ \E node \in StoreNodes, test \in Tests, epoch_ts \in StoreStamps, raw \in RawResults :
        LET result == NormalizeResult(raw)
        IN  /\ s_given' = raw
            /\ UNCHANGED s_schema
            /\ IF result \notin ALLOWED_RESULTS
               THEN /\ s_ret' = StoreReturn("insert", "ValueError", <<>>)
                    /\ UNCHANGED s_runs
               ELSE IF ~HasName(s_schema.results, "runs")
               THEN /\ s_ret' = StoreReturn("insert", "OperationalError", <<>>)
                    /\ UNCHANGED s_runs
               ELSE IF ~TableCheck(result)
               THEN /\ s_ret' = StoreReturn("insert", "IntegrityError", <<>>)
                    /\ UNCHANGED s_runs
               ELSE /\ s_runs' = insert_run(s_runs, node, test, epoch_ts, result)
                    /\ s_ret' = StoreReturn("insert", "none", <<>>)

\* orchestrator.py: insert_run(conn, node, test, epoch_ts, result); the
\* result goes to the table as it is given
OrchInsertRun ==
    /\ Len(s_runs) < MaxRuns
    /\ \E node \in StoreNodes, test \in Tests, epoch_ts \in StoreStamps, result \in RawResults :
        /\ s_given' = result
        /\ UNCHANGED s_schema
        /\ IF ~HasName(s_schema.results, "runs")
           THEN /\ s_ret' = StoreReturn("insert", "OperationalError", <<>>)
                /\ UNCHANGED s_runs
           ELSE IF ~TableCheck(result)
           THEN /\ s_ret' = StoreReturn("insert", "IntegrityError", <<>>)
                /\ UNCHANGED s_runs
           ELSE /\ s_runs' = insert_run(s_runs, node, test, epoch_ts, result)
                /\ s_ret' = StoreReturn("insert", "none", <<>>)

\* query_latest_status(conn), of result_manager.py without a node filter
\* and of orchestrator.py
QueryLatestStatus ==
    /\ IF ~HasName(s_schema.results, "latest_status")
       THEN s_ret' = StoreReturn("query", "OperationalError", <<>>)
       ELSE \E rows \in query_latest_status(s_runs) : s_ret' = StoreReturn("query", "none", rows)
    /\ s_given' = <<>>
    /\ UNCHANGED <<s_runs, s_schema>>

StoreNext == RmInsertRun \/ OrchInsertRun \/ QueryLatestStatus

\* Bound of the schema model: the number of rows of the table runs.
MaxSchemaRuns == 1

\* the inserts of the schema model
SchemaRmInsertRun == Len(s_runs) < MaxSchemaRuns /\ RmInsertRun

SchemaOrchInsertRun == Len(s_runs) < MaxSchemaRuns /\ OrchInsertRun

\* the store calls with the schema initializations among them
SchemaNext ==
    \/ RmInitDb \/ OrchInitDb \/ InitStorageDb
    \/ QueryLatestStatus
    \/ SchemaRmInsertRun \/ SchemaOrchInsertRun

----------------------------------------------------------------------------
(* Specifications                                                          *)

\* the orchestrator's control loop
Init == GenIdle /\ QueueIdle /\ OrchInit /\ StoreIdle /\ PairIdle
Next == OrchNext /\ UNCHANGED <<gen_vars, queue_vars, store_vars, pair_vars>>
Spec == Init /\ [][Next]_vars

\* the all-pairs generator, from its command line to its exit
SpecGenInit == GenInit /\ QueueIdle /\ OrchIdle /\ StoreIdle /\ PairIdle
SpecGenNext == GenNext /\ UNCHANGED <<queue_vars, orch_vars, store_vars, pair_vars>>
SpecGen == SpecGenInit /\ [][SpecGenNext]_vars

\* the two queue builders on the same inputs
SpecQueueInit == GenIdle /\ QueueInit /\ OrchIdle /\ StoreIdle /\ PairIdle
SpecQueueNext == QueueNext /\ UNCHANGED <<gen_vars, orch_vars, store_vars, pair_vars>>
SpecQueue == SpecQueueInit /\ [][SpecQueueNext]_vars

\* verify_rounds on arbitrary schedules
SpecVerifyInit == VerifyInit /\ QueueIdle /\ OrchIdle /\ StoreIdle /\ PairIdle
SpecVerifyNext == VerifyCall /\ UNCHANGED <<queue_vars, orch_vars, store_vars, pair_vars>>
SpecVerify == SpecVerifyInit /\ [][SpecVerifyNext]_vars

\* the control loop with cycles that keep running: no step of the loop is
\* put off forever (the operator's stop and the jobs' log files are not
\* steps of the loop)
LoopStep == Fetch \/ Poll \/ Plan \/ Submit \/ Sleep
SpecLive == Init /\ [][Next]_vars /\ WF_vars(LoopStep /\ UNCHANGED <<gen_vars, queue_vars, store_vars, pair_vars>>)

\* the orchestrator's control loop on a fresh store
SpecFreshInit == GenIdle /\ QueueIdle /\ OrchFreshInit /\ StoreIdle /\ PairIdle
SpecFresh == SpecFreshInit /\ [][Next]_vars

\* the Result Store under any sequence of inserts and status queries
SpecStoreInit == GenIdle /\ QueueIdle /\ OrchIdle /\ StoreInit /\ PairIdle
SpecStoreNext == StoreNext /\ UNCHANGED <<gen_vars, queue_vars, orch_vars, metric_vars, writer_vars, fetch_vars, pair_vars>>
SpecStore == SpecStoreInit /\ [][SpecStoreNext]_vars

\* the metric tables under any sequence of inserts
SpecMetricsInit == GenIdle /\ QueueIdle /\ OrchIdle /\ StoreIdle /\ PairIdle
SpecMetricsNext == MetricsNext /\ UNCHANGED <<gen_vars, queue_vars, orch_vars, writer_vars, fetch_vars, pair_vars>>
SpecMetrics == SpecMetricsInit /\ [][SpecMetricsNext]_vars

\* the two writers of the table runs, their steps interleaved
SpecWritersInit == GenIdle /\ QueueIdle /\ OrchIdle /\ StoreIdle /\ PairIdle
SpecWritersNext ==
    WritersNext /\ UNCHANGED <<gen_vars, queue_vars, orch_vars, s_runs, s_ret, s_given, s_schema, metric_vars, fetch_vars, pair_vars>>
SpecWriters == SpecWritersInit /\ [][SpecWritersNext]_vars

\* both databases from before their first initialization
SpecSchemaInit == GenIdle /\ QueueIdle /\ OrchIdle /\ StoreIdle /\ PairIdle
SpecSchemaNext == SchemaNext /\ UNCHANGED <<gen_vars, queue_vars, orch_vars, metric_vars, writer_vars, fetch_vars, pair_vars>>
SpecSchema == SpecSchemaInit /\ [][SpecSchemaNext]_vars

----------------------------------------------------------------------------
(* Properties of the job lifecycle loop                                    *)

\* C1: the active-job set never holds two entries for the same node.
OneJobPerNode == \A a, b \in active_jobs : a.node = b.node => a = b

\* a cycle that submitted the same node twice (the queue named it twice)
OneJobPerNodeWitness ==
    /\ pc = "sleep"
    /\ \E e1, e2 \in events :
        e1.kind = "submit" /\ e2.kind = "submit" /\ e1.node = e2.node /\ e1 # e2
    /\ active_jobs # {}

Submitted(evs) == {e \in evs : e.kind = "submit"}

\* C2: the active-job set never has more than MAX_CONCURRENT_JOBS entries,
\* and the submission step of a cycle submits at most MAX_CONCURRENT_JOBS
\* minus the number of jobs still active after the poll step.
ConcurrencyCap ==
    [][/\ Cardinality(active_jobs') <= MAX_CONCURRENT_JOBS
       /\ (pc = "submit" /\ pc' = "sleep")
            => Cardinality(Submitted(events') \ Submitted(events))
                 <= MAX_CONCURRENT_JOBS - Cardinality(active_jobs)]_vars

\* the cap is reached and a queued node was left unsubmitted
ConcurrencyCapWitness ==
    /\ pc = "sleep"
    /\ Cardinality(active_jobs) = MAX_CONCURRENT_JOBS
    /\ \E i \in 1..Len(node_queue) : node_queue[i] \notin ActiveNodes(active_jobs)

\* C3: at the end of a cycle, every job the cycle timed out has a run
\* record with result 'incomplete' for its node, not older than the job.
TimedOutJobsRecorded ==
    pc = "sleep" =>
        \A e \in events : e.kind = "timeout" =>
            \E i \in 1..Len(runs) :
                /\ runs[i].node = e.node
                /\ runs[i].result = "incomplete"
                /\ runs[i].timestamp >= e.submitted_at

\* C4: at the end of a cycle, every job the cycle's poll found completed or
\* failed has an outcome for its node in the run log, not older than the job.
FinishedJobsRecorded ==
    pc = "sleep" =>
        \A e \in events : e.kind = "finished" =>
            \E i \in 1..Len(runs) :
                /\ runs[i].node = e.node
                /\ runs[i].timestamp >= e.submitted_at

----------------------------------------------------------------------------
(* Properties of the all-pairs round scheduler                             *)

Scheduled == g_pc \in {"scheduled", "verified", "done"}

\* the number of places of the schedule that hold the unordered pair {x, y}
PairCount(rnds, x, y) ==
    Cardinality(UNION {{<<r, p>> : p \in {q \in 1..Len(rnds[r]) :
                                            {rnds[r][q][1], rnds[r][q][2]} = {x, y}}} :
                        r \in 1..Len(rnds)})

\* C5: for a list of at least 2 distinct participants, in any order,
\* verify_rounds(schedule_round_robin(N), N) returns True.
VerifyAcceptsSchedule ==
    (g_pc \in {"verified", "done"} /\ args.verify /\ Distinct(items) /\ Len(items) >= 2)
        => verify_result = "True"

\* C6: for n >= 2 distinct participants every unordered pair of them is in
\* the schedule exactly once, and every pair of the schedule is made of two
\* different participants, none of them the BYE placeholder.
AllPairsExactlyOnce ==
    (Scheduled /\ Distinct(items) /\ Len(items) >= 2) =>
        /\ \A x, y \in SeqToSet(items) : x # y => PairCount(rounds, x, y) = 1
        /\ \A r \in 1..Len(rounds) : \A p \in 1..Len(rounds[r]) :
            /\ rounds[r][p][1] \in SeqToSet(items)
            /\ rounds[r][p][2] \in SeqToSet(items)
            /\ rounds[r][p][1] # rounds[r][p][2]
            /\ rounds[r][p][1] # BYE /\ rounds[r][p][2] # BYE

\* a schedule of five participants: the BYE placeholder is in play
AllPairsExactlyOnceWitness ==
    /\ g_pc = "scheduled" /\ Distinct(items) /\ Len(items) = 5 /\ Len(rounds) = 5

\* C7: in every round of the schedule of distinct participants, no
\* participant is in more than one pair.
RoundsDisjoint ==
    (Scheduled /\ Distinct(items)) =>
        \A r \in 1..Len(rounds) : \A p, q \in 1..Len(rounds[r]) :
            p # q => {rounds[r][p][1], rounds[r][p][2]} \cap {rounds[r][q][1], rounds[r][q][2]} = {}

\* a schedule of six participants: three pairs run side by side in a round
RoundsDisjointWitness ==
    /\ g_pc = "scheduled" /\ Distinct(items) /\ Len(items) = 6
    /\ \A r \in 1..Len(rounds) : Len(rounds[r]) = 3

\* the participants of a round, pair by pair
RECURSIVE Flatten(_)
Flatten(rnd) == IF rnd = <<>> THEN <<>> ELSE <<Head(rnd)[1], Head(rnd)[2]>> \o Flatten(Tail(rnd))

\* conditions (1) and (2) of the verification, as the documentation gives them
ExactSchedule(rnds, its) ==
    /\ \A r \in 1..Len(rnds) : Distinct(Flatten(rnds[r]))
    /\ \A x, y \in SeqToSet(its) : x # y => PairCount(rnds, x, y) = 1
    /\ \A r \in 1..Len(rnds) : \A p \in 1..Len(rnds[r]) :
        /\ rnds[r][p][1] \in SeqToSet(its) /\ rnds[r][p][2] \in SeqToSet(its)
        /\ rnds[r][p][1] # rnds[r][p][2]

\* C8: verify_rounds returns True exactly when no round holds a participant
\* twice and the pairs of all rounds, as unordered pairs counted with
\* multiplicity, are the C(n,2) pairs of the items, each once.
VerifyIsExact ==
    g_pc = "vdone" => (verify_result = "True" <=> ExactSchedule(rounds, items))

\* C9: when verification is requested and reports a violation, the
\* generator neither emits the schedule nor ends as a successful run.
FailedVerifyIsFatal ==
    (args.verify /\ verify_result = "False") => (~emit_called /\ exit_code # 0)

----------------------------------------------------------------------------
(* Properties of the priority queue                                        *)

QueuedNodes(q) == {q[i] : i \in 1..Len(q)}
UtilsQueuedNodes(q) == {q[i][1] : i \in 1..Len(q)}

NoEvidence(n) == n \notin DOMAIN q_latest \/ q_latest[n] = 0

\* C10: the queue holds exactly the idle nodes that were never tested or
\* whose age is strictly greater than the staleness threshold; in
\* orchestrator.py the clock is read in whole seconds and the threshold is
\* TEST_AGE_THRESHOLD_DAYS, in utils/functions.py the clock has a fraction
\* and the threshold is days_threshold.
QueueMembership ==
    /\ q_pc \in {"orch", "done"} =>
        QueuedNodes(q_queue) =
            {n \in SeqToSet(q_free) :
                NoEvidence(n) \/ q_now - q_latest[n] > 7 * 24 * 3600}
    /\ q_pc = "done" =>
        UtilsQueuedNodes(u_queue) =
            {n \in SeqToSet(q_free) :
                NoEvidence(n) \/ 2 * q_now + q_half - 2 * q_latest[n] > 2 * q_days * 24 * 3600}

\* three idle nodes: one never tested, one a second over the threshold, one
\* exactly at the threshold
QueueMembershipWitness ==
    /\ q_pc = "done" /\ q_days = 7 /\ q_half = 0
    /\ \E a, b, c \in SeqToSet(q_free) :
        /\ a \notin DOMAIN q_latest
        /\ b \in DOMAIN q_latest /\ q_latest[b] = q_now - 7 * 24 * 3600 - 1
        /\ c \in DOMAIN q_latest /\ q_latest[c] = q_now - 7 * 24 * 3600
        /\ a \in QueuedNodes(q_queue) /\ b \in QueuedNodes(q_queue) /\ c \notin QueuedNodes(q_queue)

\* C11: in sort mode the queue is in ascending order of the last-tested
\* timestamp with the never-tested nodes first: of two queue positions, the
\* earlier one holds a never-tested node or a node whose timestamp is not
\* greater than that of the later one, and no tested node stands before a
\* never-tested one.  Stated of the queue of orchestrator.py and of the queue
\* of utils/functions.py without shuffle.
QueueOrdered ==
    /\ q_pc \in {"orch", "done"} =>
        \A i, j \in 1..Len(q_queue) : i < j =>
            /\ q_queue[j] \notin DOMAIN q_latest => q_queue[i] \notin DOMAIN q_latest
            /\ (q_queue[i] \in DOMAIN q_latest /\ q_queue[j] \in DOMAIN q_latest)
                    => q_latest[q_queue[i]] <= q_latest[q_queue[j]]
    /\ (q_pc = "done" /\ ~q_shuffle) =>
        \A i, j \in 1..Len(u_queue) : i < j =>
            /\ NoEvidence(u_queue[j][1]) => NoEvidence(u_queue[i][1])
            /\ (~NoEvidence(u_queue[i][1]) /\ ~NoEvidence(u_queue[j][1]))
                    => q_latest[u_queue[i][1]] <= q_latest[u_queue[j][1]]

----------------------------------------------------------------------------
(* Properties of the Result Store                                          *)

\* the rowids of the run records of a (node, test) key
KeyRowIds(rs, n, t) == {i \in 1..Len(rs) : rs[i].node = n /\ rs[i].test = t}

\* the maximum timestamp among the run records of a key that has records
MaxStamp(rs, n, t) ==
    CHOOSE m \in {rs[i].timestamp : i \in KeyRowIds(rs, n, t)} :
        \A i \in KeyRowIds(rs, n, t) : rs[i].timestamp <= m

\* the entries of a key in a list of latest-status rows
KeyEntries(rows, n, t) ==
    LET IsKey(r) == r.node = n /\ r.test = t IN SelectSeq(rows, IsKey)

\* C12: after any sequence of insert_run calls, what query_latest_status
\* returns has, for each (node, test) with run records, an entry, and every
\* entry of the key carries the maximum timestamp of the key's records and
\* the result of a record with that timestamp; an insert with a timestamp
\* lower than the key's maximum leaves the entries of the key as they were.
LatestCarriesMaximum ==
    [][/\ s_ret'.op = "query" =>
            \A n \in StoreNodes, t \in Tests :
                LET mine == KeyRowIds(s_runs', n, t)
                    entries == KeyEntries(s_ret'.rows, n, t)
                IN  /\ mine # {} => entries # <<>>
                    /\ \A e \in 1..Len(entries) :
                        /\ mine # {}
                        /\ entries[e].latest_timestamp = MaxStamp(s_runs', n, t)
                        /\ \E k \in mine :
                            /\ s_runs'[k].timestamp = entries[e].latest_timestamp
                            /\ s_runs'[k].result = entries[e].result
       /\ Len(s_runs') = Len(s_runs) + 1 =>
            LET new == s_runs'[Len(s_runs')]
            IN  (/\ KeyRowIds(s_runs, new.node, new.test) # {}
                 /\ new.timestamp < MaxStamp(s_runs, new.node, new.test))
                    => {KeyEntries(rows, new.node, new.test) : rows \in query_latest_status(s_runs')}
                        = {KeyEntries(rows, new.node, new.test) : rows \in query_latest_status(s_runs)}
      ]_vars

\* a key's record of timestamp 200 was followed by one of timestamp 100
\* with another result, and the status query answers with the first
LatestCarriesMaximumWitness ==
    /\ s_ret.op = "query"
    /\ \E i, j \in 1..Len(s_runs) :
        /\ i < j
        /\ s_runs[i].node = s_runs[j].node /\ s_runs[i].test = s_runs[j].test
        /\ s_runs[i].timestamp = 200 /\ s_runs[j].timestamp = 100
        /\ s_runs[i].result # s_runs[j].result
        /\ \E e \in 1..Len(s_ret.rows) :
            /\ s_ret.rows[e].node = s_runs[i].node /\ s_ret.rows[e].test = s_runs[i].test
            /\ s_ret.rows[e].latest_timestamp = 200 /\ s_ret.rows[e].result = s_runs[i].result

\* C13: what query_latest_status returns has exactly one entry for every
\* (node, test) key that has run records, and none for another key, also
\* when two or more run records of a key share the key's maximum timestamp.
OneEntryPerKey ==
    s_ret.op = "query" =>
        \A n \in StoreNodes, t \in Tests :
            Len(KeyEntries(s_ret.rows, n, t)) = (IF KeyRowIds(s_runs, n, t) # {} THEN 1 ELSE 0)

----------------------------------------------------------------------------
(* Further properties of the job lifecycle loop                            *)

\* the nodes the running cycle submitted a job for
SubmittedNodes(evs) == {e.node : e \in Submitted(evs)}

\* no submit_job call of the running cycle raised
NoSubmitFailure(evs) == \A e \in evs : e.kind # "submit_failed"

\* the nodes that had a job when the running cycle started
NodesOfEarlierJobs ==
    {e.node : e \in {x \in events : x.kind \in {"timeout", "finished"}}}
        \cup {j.node : j \in {x \in active_jobs : x.submitted_at <= current_time}}

\* C14: on a store without records, with n1, n2, n3 idle and a cap of 2,
\* the first cycle submits two nodes and leaves the third; at the end of a
\* cycle that timed out one of the two jobs, that node has an 'incomplete'
\* record not older than the job, the timed-out job is no longer active,
\* and the node the first cycle left over, if idle, was submitted.
EndToEndScenario ==
    pc = "sleep" =>
        /\ (cycles = 1 /\ QueuedNodes(node_queue) = Nodes /\ NoSubmitFailure(events))
                => /\ Cardinality(SubmittedNodes(events)) = 2
                   /\ Cardinality(ActiveNodes(active_jobs)) = 2
        /\ \A e \in events : e.kind = "timeout" =>
            /\ \E i \in 1..Len(runs) :
                /\ runs[i].node = e.node
                /\ runs[i].result = "incomplete"
                /\ runs[i].timestamp >= e.submitted_at
            /\ \A j \in active_jobs : j.job_id # e.job_id
            /\ (cycles = 2 /\ Cardinality(NodesOfEarlierJobs) = 2 /\ NoSubmitFailure(events))
                    => \A y \in Nodes \ NodesOfEarlierJobs :
                            y \in QueuedNodes(node_queue) => y \in SubmittedNodes(events)

\* C15: the poll step of a cycle calls cancel_job for every active job whose
\* age, now - submitted_at, is strictly greater than max_queue_time and
\* removes it from the active set in that step; it calls cancel_job for no
\* job whose age is at or below the limit.
TimeoutCancels ==
    [][(pc = "poll" /\ pc' = "plan") =>
            \A j \in active_jobs :
                LET cancelled == \E e \in events' : e.kind = "cancel" /\ e.job_id = j.job_id
                IN  IF current_time - j.submitted_at > MAX_QUEUE_TIME_MINS * 60
                    THEN cancelled /\ j \notin active_jobs'
                    ELSE ~cancelled
      ]_vars

\* a poll step that cancelled a job one second over the limit and kept a job
\* exactly at the limit
TimeoutCancelsWitness ==
    /\ pc = "plan"
    /\ \E e \in events :
        e.kind = "cancel" /\ current_time - e.submitted_at = MAX_QUEUE_TIME_MINS * 60 + 1
    /\ \E j \in active_jobs : current_time - j.submitted_at = MAX_QUEUE_TIME_MINS * 60

\* the nodes for which a submit_job call of the submission step raised
FailedNodes(evs) == {e.node : e \in {x \in evs : x.kind = "submit_failed"}}

Min(a, b) == IF a < b THEN a ELSE b

LoopSurvivesExceptions ==
    [][/\ (pc # "stopped" /\ pc' = "stopped") =>
            (pc = "sleep" /\ now' = now /\ active_jobs' = active_jobs /\ cycles' = cycles)
       /\ (pc \in {"fetch", "poll", "plan", "submit"} /\ cycles' # cycles) =>
            /\ pc' = "fetch"
            /\ cycles' = cycles + 1
            /\ now' = now + 60
            /\ active_jobs' = active_jobs
       /\ pc = "stopped" => pc' = "stopped"
      ]_vars

\* the first cycle raised and the second one polled the jobs
LoopSurvivesExceptionsWitness ==
    /\ cycles = 2
    /\ now = StartTime + 60
    /\ pc = "plan"

\* get_free_nodes of the running cycle failed
LookupFailed(evs) == \E e \in evs : e.kind = "free_nodes_error"

\* C18: in a cycle whose lookup of the free nodes failed the queue is empty,
\* no job is submitted and the active set stays as the poll step left it;
\* every cycle makes the lookup anew, so whatever happened before, a cycle
\* that reaches the lookup can get a queue that is not empty.
LookupFailureSkipsCycle ==
    /\ [][/\ (pc = "plan" /\ LookupFailed(events')) =>
                (node_queue' = <<>> /\ active_jobs' = active_jobs /\ pc' = "submit")
          /\ (pc = "submit" /\ LookupFailed(events)) =>
                /\ pc' = "sleep"
                /\ active_jobs' = active_jobs
                /\ Submitted(events') = Submitted(events)
          ]_vars
    /\ [](pc = "plan" => ENABLED (Plan /\ node_queue' # <<>>))

\* a cycle that found its only job running, failed to look up the free
\* nodes and went to sleep with the job still active
LookupFailureSkipsCycleWitness ==
    /\ pc = "sleep"
    /\ cycles = 2
    /\ LookupFailed(events)
    /\ Cardinality(active_jobs) = 1
    /\ node_queue = <<>>

\* the cycle found the job of node n completed or failed and the run log
\* has no record of the node that is not older than the job
FinishedUnrecorded(n) ==
    /\ pc = "sleep"
    /\ \E e \in events :
        /\ e.kind = "finished" /\ e.node = n
        /\ ~ \E i \in 1..Len(runs) : runs[i].node = n /\ runs[i].timestamp >= e.submitted_at

\* the run log has a record of node n made since the orchestrator started,
\* or the logs directory holds a file of the node for a later cycle to read
RecordedOrDerivable(n) ==
    \/ \E i \in 1..Len(runs) : runs[i].node = n /\ runs[i].timestamp >= StartTime
    \/ \E f \in logs : f.node = n /\ f.timestamp >= StartTime

----------------------------------------------------------------------------
(* Further properties of the all-pairs round scheduler                     *)

\* C20: for an even number n >= 2 of participants the schedule has n - 1
\* rounds of exactly n/2 pairs each, for an odd n >= 3 it has n rounds of
\* exactly (n-1)/2 pairs each.
RoundCounts ==
    Scheduled =>
        LET n == Len(items)
        IN  /\ (n >= 2 /\ n % 2 = 0) =>
                /\ Len(rounds) = n - 1
                /\ \A r \in 1..Len(rounds) : 2 * Len(rounds[r]) = n
            /\ (n >= 3 /\ n % 2 = 1) =>
                /\ Len(rounds) = n
                /\ \A r \in 1..Len(rounds) : 2 * Len(rounds[r]) = n - 1

\* a schedule of seven participants: seven rounds of three pairs
RoundCountsWitness ==
    /\ g_pc = "scheduled" /\ Len(items) = 7 /\ Len(rounds) = 7
    /\ \A r \in 1..Len(rounds) : Len(rounds[r]) = 3

\* C21: for a participant list of fewer than two entries the scheduler
\* returns the schedule without rounds (and raises nothing: the run goes on
\* to "scheduled").
FewerThanTwoNoRounds ==
    (Scheduled /\ Len(items) < 2) => rounds = <<>>

\* the node set the command line gives is empty: --nitems 0 without a nodes
\* file, or a nodes file without a non-blank line
EmptyNodeSet ==
    IF args.has_file THEN StripLines(args.file_lines) = <<>>
    ELSE args.has_n /\ args.nitems = 0

\* C22: an empty node set is rejected at once: the generator exits with an
\* error and never reaches the scheduler, be the empty set one of --nitems
\* or one of an empty nodes file.
EmptyNodeSetRejected ==
    (EmptyNodeSet /\ g_pc # "start") => (g_pc = "exit" /\ exit_code = 1)

----------------------------------------------------------------------------
(* Properties of insert_run                                                *)

\* C23: an insert_run call the result argument of which is none of pass,
\* fail, incomplete fails with an error and leaves the run log, and with it
\* the latest-status projection, as they were.
InvalidResultFails ==
    [][(s_ret'.op = "insert" /\ s_given' \notin ALLOWED_RESULTS) =>
            /\ s_ret'.error # "none"
            /\ s_runs' = s_runs
            /\ query_latest_status(s_runs') = query_latest_status(s_runs)
      ]_vars

\* C24: every run record insert_run stores has exactly the result value
\* the caller gave, and a given value that is none of the three allowed ones
\* is not stored under another value.
StoredResultIsGiven ==
    [][s_runs' # s_runs =>
            /\ Len(s_runs') = Len(s_runs) + 1
            /\ s_runs'[Len(s_runs')].result = s_given'
      ]_vars

----------------------------------------------------------------------------
(* Further properties of the priority queue builders                       *)

\* the orders in which the idle-node set of the call can be visited
SameSetOrders == {o \in NodeOrders : SeqToSet(o) = SeqToSet(q_free)}

\* C25: in sort mode the queue is a function of the idle-node set, the
\* latest-status map and the time: a second call with the same three gives
\* the same ordered list, whatever the order the set is held in, ties of the
\* last-tested timestamp and never-tested nodes included.
QueueDeterministic ==
    /\ q_pc \in {"orch", "done"} =>
          \A o \in SameSetOrders :
              build_priority_queue(o, LatestRecords(q_latest), q_now) = q_queue
    /\ (q_pc = "done" /\ ~q_shuffle) =>
          \A o \in SameSetOrders :
              utils_build_priority_queue(o, q_latest, q_now, q_half, q_days, FALSE) = {u_queue}

\* C26: with a staleness threshold of zero days every idle node is in the
\* queue, whatever its last-tested timestamp, one equal to or later than the
\* current time included.
ZeroThresholdQueuesAll ==
    (q_pc = "done" /\ q_days = 0) => UtilsQueuedNodes(u_queue) = SeqToSet(q_free)

----------------------------------------------------------------------------
(* Properties of the schema initialization                                 *)

SchemaNames(schema) == [i \in 1..Len(schema) |-> schema[i].name]

\* C27: a schema initialization called on an initialized database raises no
\* error, leaves sqlite_master as it was, without a duplicate table, index or
\* view, and leaves every run record and the latest-status projection
\* unchanged.
SchemaInitIdempotent ==
    [][/\ (s_ret'.op = "init" /\ s_schema.results = InitialSchema.results) =>
            /\ s_ret'.error = "none"
            /\ s_schema' = s_schema
            /\ Distinct(SchemaNames(s_schema'.results))
            /\ s_runs' = s_runs
            /\ query_latest_status(s_runs') = query_latest_status(s_runs)
       /\ (s_ret'.op = "init_storage" /\ s_schema.storage = InitialSchema.storage) =>
            /\ s_ret'.error = "none"
            /\ s_schema' = s_schema
            /\ Distinct(SchemaNames(s_schema'.storage))
            /\ s_runs' = s_runs
      ]_vars

\* init_db was called on the initialized results database that holds a run
\* record, after a status query
SchemaInitIdempotentWitness ==
    /\ s_ret.op = "init" /\ s_ret.error = "none"
    /\ s_schema = InitialSchema
    /\ Len(s_runs) = 1

----------------------------------------------------------------------------
(* Properties of the metric tables                                         *)

KeyRows(table, node, timestamp) ==
    {r \in table : r.node = node /\ r.timestamp = timestamp}

\* the table the last insert went to, before and after the insert
MetricTableOf(op, storage, nccl) == IF op = "add_storage" THEN storage ELSE nccl

\* C28: a metric table has at most one row for a key (node, timestamp); the
\* row of a key holds the values of the last insert for the key, an insert
\* leaving the rows of the other keys alone; and the insert of a sample
\* that is in the table leaves the table as it is.
MetricKeyReplaces ==
    /\ [](\A table \in {m_storage, m_nccl} :
            \A r1, r2 \in table :
                (r1.node = r2.node /\ r1.timestamp = r2.timestamp) => r1 = r2)
    /\ [][(m_count' = m_count + 1 /\ m_ret'.error = "none") =>
            LET row == m_ret'.row
                before == MetricTableOf(m_ret'.op, m_storage, m_nccl)
                after == MetricTableOf(m_ret'.op, m_storage', m_nccl')
            IN  /\ KeyRows(after, row.node, row.timestamp) = {row}
                /\ \A r \in before \cup after :
                      (r.node # row.node \/ r.timestamp # row.timestamp)
                          => (r \in before <=> r \in after)
                /\ row \in before => after = before
                /\ MetricTableOf(m_ret'.op, m_nccl', m_storage')
                      = MetricTableOf(m_ret'.op, m_nccl, m_storage)
          ]_vars

\* a sample replaced the sample of its key, given with another timestamp of
\* the same second and another value; the table has a second key
MetricKeyReplacesWitness ==
    /\ m_count = 3 /\ m_ret.op = "add_nccl" /\ m_ret.error = "none"
    /\ m_ret.row = MetricRow("n1", 100, 1)
    /\ m_nccl = {MetricRow("n1", 100, 1), MetricRow("n2", 200, 0)}

----------------------------------------------------------------------------
(* Properties of the concurrent writers                                    *)

\* how often a row is in a sequence of rows
RowCount(rows, row) == Cardinality({i \in 1..Len(rows) : rows[i] = row})

----------------------------------------------------------------------------
(* Further properties of the submission step                               *)

\* C30: the submission step submits no job for a node that has an entry in
\* the active-job set at the moment of the submission: neither an entry
\* the step found (the queue is built from the idle nodes without an active
\* job) nor the entry of a job the step submitted before.
NoSubmitForActiveNode ==
    [][pc = "submit" =>
          LET new == Submitted(events') \ Submitted(events)
          IN  \A e \in new :
                /\ e.node \notin ActiveNodes(active_jobs)
                /\ \A other \in new : other.node = e.node => other = e
      ]_vars

-----------------------------------------------------------------------------
(* Properties of the concurrency slots                                     *)

\* The jobs the manager submitted and the scheduler has not been seen to
\* finish: the jobs of the active set, and the jobs this cycle cancelled
\* (cancel_job is "pass" and the poll step asks no status of a timed-out
\* job, so nothing brought them to a terminal state).
NotTerminalJobs ==
    {j.job_id : j \in active_jobs}
        \cup {e.job_id : e \in {c \in events : c.kind = "cancel"}}

\* C31: at every point at most MAX_CONCURRENT_JOBS of the submitted jobs
\* are not yet terminal at the scheduler, also right after a timed-out job
\* was cancelled and its slot was used again.
SlotsNeverOverCommitted ==
    Cardinality(NotTerminalJobs) <= MAX_CONCURRENT_JOBS

-----------------------------------------------------------------------------
(* Properties of the staleness test of a cycle                             *)

\* a run record of the node that is younger than the threshold at time t
RecentlyTested(node, t) ==
    \E i \in 1..Len(runs) :
        /\ runs[i].node = node
        /\ t - runs[i].timestamp < TEST_AGE_THRESHOLD_DAYS * 86400

\* C33: no cycle submits a job for a node whose most recent run record is
\* younger than the staleness threshold, whether or not the cycle could
\* read the Result Store.
NoSubmitForFreshNode ==
    [][pc = "submit" =>
          \A e \in Submitted(events') \ Submitted(events) :
              ~RecentlyTested(e.node, now)
      ]_vars

-----------------------------------------------------------------------------
(* utils/functions.py: add_result_local and get_db_latest_status, with the *)
(* status command of result_manager.py, on one results database            *)

\* Bound of the status model: the number of rows of the table runs.
MaxStatusRuns == 2

\* CREATE TABLE IF NOT EXISTS latest_status (..., PRIMARY KEY (node, test)):
\* the table and the index of its primary key
CreateStatusTable(db) ==
    IF db.error # "none" \/ HasName(db.schema, "latest_status") THEN db
    ELSE [db EXCEPT !.schema =
            @ \o <<SchemaEntry("table", "latest_status"),
                   SchemaEntry("index", "sqlite_autoindex_latest_status_1")>>]

\* SELECT node, test, latest_timestamp, result FROM latest_status ORDER BY
\* node, test: the rows of the view, or the rows of a table of that name.
\* No statement of the repository inserts into such a table.
SelectLatestStatus(schema, rs) ==
    IF \E i \in 1..Len(schema) :
            schema[i].name = "latest_status" /\ schema[i].type = "view"
    THEN query_latest_status(rs)
    ELSE {<<>>}

\* add_result_local(node, test, result, timestamp): parse_timestamp, the
\* table runs and its index created when missing, one INSERT
AddResultLocal ==
    /\ Len(s_runs) < MaxStatusRuns
    /\ \E node \in StoreNodes, stamp \in MetricStamps, result \in RawResults :
        LET timestamp == parse_timestamp(stamp)
            db == CreateIfNotExists(
                      CreateIfNotExists(SchemaOk(s_schema.results), "table", "runs"),
                      "index", "idx_runs_node_test_ts")
        IN  /\ s_schema' = [s_schema EXCEPT !.results = db.schema]
            /\ IF TableCheck(result)
               THEN /\ s_runs' = insert_run(s_runs, node, "storage", timestamp, result)
                    /\ s_ret' = StoreReturn("add", "none", <<>>)
               ELSE /\ s_ret' = StoreReturn("add", "IntegrityError", <<>>)
                    /\ UNCHANGED s_runs
    /\ s_given' = <<>>

\* get_db_latest_status(): the script run on the pod
GetDbLatestStatus ==
    /\ LET db == CreateStatusTable(SchemaOk(s_schema.results))
       IN  /\ s_schema' = [s_schema EXCEPT !.results = db.schema]
           /\ \E rows \in SelectLatestStatus(db.schema, s_runs) :
                s_ret' = StoreReturn("status", "none", rows)
    /\ s_given' = <<>>
    /\ UNCHANGED s_runs

\* result_manager.py, cmd_status without a node filter: init_db(conn), then
\* query_latest_status(conn)
CmdStatus ==
    /\ LET db == init_db(s_schema.results)
       IN  /\ s_schema' = [s_schema EXCEPT !.results = db.schema]
           /\ \E rows \in SelectLatestStatus(db.schema, s_runs) :
                s_ret' = StoreReturn("status", "none", rows)
    /\ s_given' = <<>>
    /\ UNCHANGED s_runs

StatusNext == AddResultLocal \/ GetDbLatestStatus \/ CmdStatus \/ RmInitDb

\* the results database from before its first use, under any order of the
\* calls
SpecStatusInit == GenIdle /\ QueueIdle /\ OrchIdle /\ StoreIdle /\ PairIdle
SpecStatusNext == StatusNext /\ UNCHANGED <<gen_vars, queue_vars, orch_vars, metric_vars, writer_vars, fetch_vars, pair_vars>>
SpecStatus == SpecStatusInit /\ [][SpecStatusNext]_vars

-----------------------------------------------------------------------------
(* Properties of the status query                                          *)

\* C32: after any sequence of store operations on a fresh or existing
\* store, a status query returns the latest-per-(node, test) projection of
\* the run log, and no operation creates or leaves an object latest_status
\* that is not derived from the table runs.
StatusIsProjection ==
    /\ \A i \in 1..Len(s_schema.results) :
          s_schema.results[i].name = "latest_status"
              => s_schema.results[i].type = "view"
    /\ (s_ret.op = "status" /\ s_ret.error = "none")
          => s_ret.rows \in query_latest_status(s_runs)

-----------------------------------------------------------------------------
(* orchestrator.py: fetch_and_update_results, file by file, beside a       *)
(* result producer that appends to the same table runs                     *)

\* Bound of the interleaving model: the rows the producer adds while the
\* table is shorter than this.
MaxProducerRows == 2

\* the log files below LOGS_DIR: Storage/Node_n1/..._100.log and ..._200.log
WalkFiles ==
    {[node |-> "n1", test |-> "storage", timestamp |-> ts, content |-> {"pass"}] :
        ts \in StoreStamps}

\* fetch_and_update_results up to its walk: connect_db, init_db, the
\* dictionary latest_status read from the view, and the files os.walk will
\* yield, in its order
FetchOpen ==
    /\ f_pc = "idle"
    /\ f_cache' = LatestCache(s_runs)
    /\ \E files \in SUBSET WalkFiles : \E order \in SetOrders(files) : f_todo' = order
    /\ f_pc' = "walk"
    /\ UNCHANGED <<s_runs, s_ret, s_given, s_schema>>

\* one iteration of the walk: the file is skipped when it is not newer than
\* the dictionary's entry of its (node, test) or cannot be read; otherwise
\* insert_run adds its row and commits, and the dictionary is updated
FetchFile ==
    /\ f_pc = "walk" /\ f_todo # <<>>
    /\ LET f == Head(f_todo)
           key == <<f.node, f.test>>
       IN  \E readable \in BOOLEAN :
            IF NotNewer(f_cache, f) \/ ~readable
            THEN UNCHANGED <<s_runs, f_cache>>
            ELSE /\ s_runs' = insert_run(s_runs, f.node, f.test, f.timestamp,
                                         ResultOfContent(f.content))
                 /\ f_cache' = [k \in DOMAIN f_cache \cup {key} |->
                                  IF k = key THEN f.timestamp ELSE f_cache[k]]
    /\ f_todo' = Tail(f_todo)
    /\ UNCHANGED <<f_pc, s_ret, s_given, s_schema>>

\* the end of the walk: conn.close()
FetchClose ==
    /\ f_pc = "walk" /\ f_todo = <<>>
    /\ f_pc' = "idle"
    /\ f_cache' = <<>>
    /\ UNCHANGED <<f_todo, s_runs, s_ret, s_given, s_schema>>

\* a result producer outside the orchestrator: add_result_local with the
\* node, test and timestamp of a run that has no record yet
ProducerAdd ==
    /\ Len(s_runs) < MaxProducerRows
    /\ \E node \in {"n1"}, test \in {"storage"}, timestamp \in StoreStamps,
         result \in {"pass", "fail"} :
        /\ \A i \in 1..Len(s_runs) :
              <<s_runs[i].node, s_runs[i].test, s_runs[i].timestamp>>
                  # <<node, test, timestamp>>
        /\ s_runs' = insert_run(s_runs, node, test, timestamp, result)
    /\ UNCHANGED <<f_pc, f_cache, f_todo, s_ret, s_given, s_schema>>

FetchNext == FetchOpen \/ FetchFile \/ FetchClose \/ ProducerAdd

\* fetch_and_update_results and the producer on the initialized store,
\* their steps interleaved
SpecFetchInit == GenIdle /\ QueueIdle /\ OrchIdle /\ StoreInit /\ PairIdle
SpecFetchNext == FetchNext /\ UNCHANGED <<gen_vars, queue_vars, orch_vars, metric_vars, writer_vars, pair_vars>>
SpecFetch == SpecFetchInit /\ [][SpecFetchNext]_vars

-----------------------------------------------------------------------------
(* Properties of fetch_and_update_results beside a producer                *)

\* C34: under any interleaving of fetch_and_update_results with producers
\* that append to the same store, the run log never holds two records with
\* the same (node, test, timestamp).
NoDuplicateRunRecords ==
    \A i, j \in 1..Len(s_runs) :
        (/\ s_runs[i].node = s_runs[j].node
         /\ s_runs[i].test = s_runs[j].test
         /\ s_runs[i].timestamp = s_runs[j].timestamp) => i = j

-----------------------------------------------------------------------------
(* utils/functions.py: the output of get_db_latest_status and              *)
(* parse_db_status_output                                                  *)

RECURSIVE DecimalDigits(_)
\* str(n) of a natural number, as the sequence of its digits
DecimalDigits(n) ==
    IF n < 10 THEN <<n>> ELSE Append(DecimalDigits(n \div 10), n % 10)

\* the field ts_num: int(r['latest_timestamp']) printed by the f-string
TsNum(n) == IF n < 0 THEN <<"-">> \o DecimalDigits(0 - n) ELSE DecimalDigits(n)

\* ts_str.isdigit()
IsDigit(s) == s # <<>> /\ \A i \in 1..Len(s) : s[i] \in 0..9

\* int(ts_str) of a string of digits
IntOfDigits(s) ==
    LET F[i \in 0..Len(s)] == IF i = 0 THEN 0 ELSE 10 * F[i - 1] + s[i]
    IN  F[Len(s)]

\* get_db_latest_status: the lines printed after the header, each as its
\* tab-separated fields node, test, ts_num, ts_iso, result
StatusLines(rows) ==
    [i \in 1..Len(rows) |->
        <<rows[i].node, rows[i].test, TsNum(rows[i].latest_timestamp),
          <<"iso", rows[i].latest_timestamp>>, rows[i].result>>]

\* parse_db_status_output on the lines after the header: per node the
\* greatest ts of its lines, 0 for a node whose ts is not a number
parse_db_status_output(lines) ==
    LET Get(map, node) == IF node \in DOMAIN map THEN map[node] ELSE 0
        Put(map, node, ts) ==
            [n \in DOMAIN map \cup {node} |-> IF n = node THEN ts ELSE map[n]]
        Step(map, parts) ==
            IF Len(parts) < 3 THEN map
            ELSE IF parts[3] # <<>> /\ IsDigit(parts[3])
                 THEN IF IntOfDigits(parts[3]) > Get(map, parts[1])
                      THEN Put(map, parts[1], IntOfDigits(parts[3]))
                      ELSE map
                 ELSE IF parts[1] \notin DOMAIN map THEN Put(map, parts[1], 0) ELSE map
        F[i \in 0..Len(lines)] == IF i = 0 THEN <<>> ELSE Step(F[i - 1], lines[i])
    IN  F[Len(lines)]

-----------------------------------------------------------------------------
(* Properties of the last-tested timestamp                                 *)

\* C35: the last-tested timestamp get_latest_results gives for a node is
\* the maximum of the latest timestamps of the node's tests, the value
\* parse_db_status_output derives from the same rows of latest_status.
LastTestedIsMaximum ==
    (s_ret.op = "query" /\ s_ret.error = "none") =>
        \A m \in get_latest_results(s_runs) : \A n \in DOMAIN m :
            LET status_map == parse_db_status_output(StatusLines(s_ret.rows))
            IN  /\ n \in DOMAIN status_map
                /\ m[n].timestamp = status_map[n]
                /\ \A i \in 1..Len(s_runs) :
                      s_runs[i].node = n => s_runs[i].timestamp <= m[n].timestamp

-----------------------------------------------------------------------------
(* Properties of the age of the active jobs                                *)

-----------------------------------------------------------------------------
(* orchestrator.py: fetch_and_update_results run again and again on one    *)
(* logs directory, with no other writer of the table runs                  *)

\* Bounds of the repeated fetch: the number of runs, and the rows the table
\* holds before the first one.
MaxFetchRuns == 2
MaxStoredRows == 1

\* the log files below LOGS_DIR, a job's log without "pass" or "fail" in it
RefetchFiles ==
    {[node |-> n, test |-> "storage", timestamp |-> ts, content |-> {}] :
        n \in StoreNodes, ts \in StoreStamps}

\* the rows of the table before the first run
StoredRows ==
    {[node |-> "n1", test |-> "storage", timestamp |-> ts, result |-> "pass"] :
        ts \in StoreStamps}

RefetchInit ==
    /\ pc = "refetch" /\ now = 0 /\ current_time = 0 /\ active_jobs = {}
    /\ nodes_to_remove = {} /\ node_queue = <<>> /\ events = {} /\ cycles = 0
    /\ runs \in SeqsUpTo(StoredRows, MaxStoredRows)
    /\ logs \in SUBSET RefetchFiles

\* one call of fetch_and_update_results()
Refetch ==
    /\ pc = "refetch"
    /\ cycles < MaxFetchRuns
    /\ \E order \in SetOrders(logs) : runs' = fetch_and_update_results(order, runs)
    /\ cycles' = cycles + 1
    /\ UNCHANGED <<pc, now, current_time, active_jobs, nodes_to_remove, node_queue, logs, events>>

SpecRefetchInit == GenIdle /\ QueueIdle /\ RefetchInit /\ StoreIdle /\ PairIdle
SpecRefetchNext == Refetch /\ UNCHANGED <<gen_vars, queue_vars, store_vars, pair_vars>>
SpecRefetch == SpecRefetchInit /\ [][SpecRefetchNext]_vars

-----------------------------------------------------------------------------
(* Properties of the repeated fetch                                        *)

\* the timestamps of a key: in the table, and on the log files
StoredStamps(rs, n, t) == {rs[i].timestamp : i \in KeyRowIds(rs, n, t)}
FileStamps(files, n, t) == {f.timestamp : f \in {g \in files : g.node = n /\ g.test = t}}

-----------------------------------------------------------------------------
(* Properties of the idle participant                                      *)

\* the pairs of a round that hold the participant
PairsWith(rnd, x) == {p \in 1..Len(rnd) : x = rnd[p][1] \/ x = rnd[p][2]}

\* C38: for an odd number n >= 3 of distinct participants, every
\* participant is absent from exactly one of the n rounds of the schedule
\* (the round that pairs it with the BYE placeholder) and is in exactly one
\* pair of each of the other n - 1 rounds.
IdleExactlyOnce ==
    (Scheduled /\ Distinct(items) /\ Len(items) >= 3 /\ Len(items) % 2 = 1) =>
        /\ Len(rounds) = Len(items)
        /\ \A x \in SeqToSet(items) :
            /\ Cardinality({r \in 1..Len(rounds) : PairsWith(rounds[r], x) = {}}) = 1
            /\ \A r \in 1..Len(rounds) : Cardinality(PairsWith(rounds[r], x)) <= 1

\* a schedule of nine participants in which the first one is idle in the
\* first round and the last but one in the second
IdleExactlyOnceWitness ==
    /\ g_pc = "scheduled" /\ Distinct(items) /\ Len(items) = 9
    /\ PairsWith(rounds[1], items[1]) = {}
    /\ PairsWith(rounds[2], items[8]) = {}

-----------------------------------------------------------------------------
(* others/npair_old.py: generate_pairwise_config, beside the generator     *)

\* rotate without a rotation
RotateKept(lst) == lst

\* rotate(lst): lst[1:] + lst[0:1]
RotateLeft(lst) == IF lst = <<>> THEN lst ELSE Tail(lst) \o <<Head(lst)>>

\* the list comprehension "pairs": [participants[i], participants[-i - 1]]
\* for i in range(len(participants) // 2), without the pairs of the dummy -1
RECURSIVE ConfigPairs(_, _)
ConfigPairs(participants, i) ==
    IF i > Len(participants) \div 2 THEN <<>>
    ELSE LET a == participants[i]
             b == participants[Len(participants) + 1 - i]
         IN  (IF a # -1 /\ b # -1 THEN <<(<<a, b>>)>> ELSE <<>>)
             \o ConfigPairs(participants, i + 1)

\* the loop "for _ in range(len(participants) - 1)"
RECURSIVE ConfigFrom(_, _, _)
ConfigFrom(fixed_participant, rotating_participants, k) ==
    IF k = 0 THEN <<>>
    ELSE <<ConfigPairs(<<fixed_participant>> \o rotating_participants, 1)>>
         \o ConfigFrom(fixed_participant, RotateLeft(rotating_participants), k - 1)

\* generate_pairwise_config(n) for n > 0
generate_pairwise_config(n) ==
    LET participants == [i \in 1..n |-> i - 1] \o (IF n % 2 = 1 THEN <<-1>> ELSE <<>>)
    IN  ConfigFrom(Head(participants), Tail(participants), Len(participants) - 1)

\* the benchmark on as many nodes as the generator has items
PairsInit ==
    /\ GenInit /\ args.has_n
    /\ p_pc = "start" /\ p_n = args.nitems /\ p_config = <<>>

\* allpairs_node = generate_pairwise_config(node_world_size); n <= 0 raises
\* ValueError
PairwiseConfig ==
    /\ p_pc = "start"
    /\ IF p_n <= 0
       THEN p_pc' = "error" /\ p_config' = p_config
       ELSE p_pc' = "done" /\ p_config' = generate_pairwise_config(p_n)
    /\ UNCHANGED <<p_n, gen_vars>>

PairsNext == (GenNext /\ UNCHANGED pair_vars) \/ PairwiseConfig

SpecPairsInit == PairsInit /\ QueueIdle /\ OrchIdle /\ StoreIdle
SpecPairsNext == PairsNext /\ UNCHANGED <<queue_vars, orch_vars, store_vars>>
SpecPairs == SpecPairsInit /\ [][SpecPairsNext]_vars

-----------------------------------------------------------------------------
(* Properties of the benchmark's plan                                      *)

\* a schedule read as the set of its rounds, each round as the set of its
\* unordered pairs
RoundSets(rnds) ==
    {{{rnds[r][p][1], rnds[r][p][2]} : p \in 1..Len(rnds[r])} : r \in 1..Len(rnds)}

\* the plan of the benchmark with str() of its node numbers
ConfigAsStr(config) ==
    [r \in 1..Len(config) |->
        [p \in 1..Len(config[r]) |-> <<Str(config[r][p][1]), Str(config[r][p][2])>>]]

\* C39: for n >= 2, generate_pairwise_config(n) and schedule_round_robin
\* over the participants 0..n-1 give the same set of rounds, each round
\* read as a set of unordered pairs; so the benchmark's plan holds every
\* pair of nodes exactly once and no node twice in a round.
PlansAgree ==
    (Scheduled /\ p_pc = "done" /\ p_n >= 2) =>
        /\ items = RangeStr(0, p_n)
        /\ RoundSets(ConfigAsStr(p_config)) = RoundSets(rounds)
        /\ Len(p_config) = Len(rounds)
        /\ \A x, y \in 0..(p_n - 1) : x # y => PairCount(p_config, x, y) = 1
        /\ \A r \in 1..Len(p_config) : Distinct(Flatten(p_config[r]))

\* both plans for seven nodes, the second rounds of which differ
PlansAgreeWitness ==
    /\ g_pc = "scheduled" /\ p_pc = "done" /\ p_n = 7
    /\ Len(p_config) = 7
    /\ ConfigAsStr(p_config)[2] # rounds[2]

====
